---- MODULE Spec2Model ----
(***************************************************************************)
(* A model of qduc/llm-mcp: the session store (src/lib/session.js), the    *)
(* ask / clear tool handlers (src/index.js) and the response normalizer    *)
(* (src/lib/extractToolCall.js).                                           *)
(*                                                                         *)
(* Seven specifications share the module's variables:                      *)
(*   SpecStore    the exported store operations called in any order;       *)
(*   Spec         the tool handlers, interleaving at their provider calls; *)
(*   SpecLive     Spec where every issued provider call settles;           *)
(*   SpecDeliver  the same handlers, one request at a time, with what each *)
(*                request hands back to its caller;                        *)
(*   SpecLong     the ask handlers on one session, up to and beyond the    *)
(*                cap of 20 Turns;                                         *)
(*   SpecExtract  extractToolCall applied to a bounded set of responses;   *)
(*   SpecPure     extractToolCall called twice on each of them.            *)
(***************************************************************************)
EXTENDS Integers, Sequences, FiniteSets, TLC

VARIABLES
    conversations,  \* session.js:2   the Map: session id -> sequence of Turns
    appended,       \* ghost: per session id, every Turn appended since the id was last cleared
    lastOp,         \* ghost: the store operation that ran last, with the store before it
    req,            \* per request: the handler's locals and its position
    delivered,      \* what the last step of a tool handler handed to the tool's caller
    response,       \* the raw provider response handed to extractToolCall
    extracted       \* what extractToolCall did with it

vars == <<conversations, appended, lastOp, req, delivered, response, extracted>>

storeVars == <<conversations, appended, lastOp>>
handlerVars == <<req, delivered>>
extractVars == <<response, extracted>>

(***************************************************************************)
(* JavaScript values.  A session id is a JS string, or undefined / null.   *)
(* Texts (questions, answers) are sequences, '' being the empty sequence.  *)
(***************************************************************************)
UNDEFINED == "<undefined>"
NULL == "<null>"

\* !x for a session id argument: undefined, null and '' are falsy.
Falsy(x) == x \in {UNDEFINED, NULL, ""}

Roles == {"user", "assistant"}

EmptyMap == [k \in {} |-> <<>>]

MapSet(m, k, v) == [x \in (DOMAIN m) \cup {k} |-> IF x = k THEN v ELSE m[x]]

MapDelete(m, k) == [x \in (DOMAIN m) \ {k} |-> m[x]]

\* The last n elements of s (all of s when it is shorter).
LastN(s, n) == IF Len(s) <= n THEN s ELSE SubSeq(s, Len(s) - n + 1, Len(s))

(***************************************************************************)
(* JavaScript values inside provider responses, tagged by typeof so that   *)
(* the code's typeof / Array.isArray / truthiness tests can be written.    *)
(***************************************************************************)
JsUndefined == [t |-> "undefined"]
JsNull == [t |-> "null"]
JsString(s) == [t |-> "string", v |-> s]
JsNumber(n) == [t |-> "number", v |-> n]
JsObject(fields) == [t |-> "object", f |-> fields]
JsArray(items) == [t |-> "array", a |-> items]
EmptyObject == JsObject(<<>>)

Nullish(v) == v.t \in {"undefined", "null"}

\* if (v)
Truthy(v) ==
    CASE v.t \in {"undefined", "null"} -> FALSE
      [] v.t = "string" -> v.v # ""
      [] v.t = "number" -> v.v # 0
      [] OTHER -> TRUE

\* v.name for a v that is neither null nor undefined (a TypeError otherwise,
\* which every caller rules out or reports).
Prop(v, name) ==
    IF v.t = "object" /\ name \in DOMAIN v.f THEN v.f[name] ELSE JsUndefined

\* v?.name
OptProp(v, name) == IF Nullish(v) THEN JsUndefined ELSE Prop(v, name)

\* a ?? b
Coalesce(a, b) == IF Nullish(a) THEN b ELSE a

\* v[0] for a v that is neither null nor undefined.
First(v) == IF v.t = "array" /\ Len(v.a) > 0 THEN v.a[1] ELSE JsUndefined

\* v?.[0]
OptFirst(v) == IF Nullish(v) THEN JsUndefined ELSE First(v)

IsArray(v) == v.t = "array"

SetMin(S) == CHOOSE x \in S : \A y \in S : x <= y

\* items.find(x => Test(x)) where Test reads a property of x: the index of
\* the first hit (0 when there is none), and whether a null or undefined
\* item met before it makes the callback throw a TypeError.
FindIndex(items, Test(_)) ==
    LET hits == {i \in 1..Len(items) : ~Nullish(items[i]) /\ Test(items[i])}
        bad == {i \in 1..Len(items) : Nullish(items[i])}
        hit == IF hits = {} THEN Len(items) + 1 ELSE SetMin(hits)
    IN  [threw |-> \E i \in bad : i < hit,
         index |-> IF hits = {} THEN 0 ELSE hit]

(***************************************************************************)
(* JSON.parse on the argument strings the model feeds it.  Every other     *)
(* string of the model ('not json', '{"x":', '') is not JSON: SyntaxError. *)
(***************************************************************************)
JSON_parse(text) ==
    CASE text = "{\"x\":1}" -> [ok |-> TRUE, value |-> JsObject([x |-> JsNumber(1)])]
      [] text = "{\"location\": \"San Francisco\"}" ->
            [ok |-> TRUE, value |-> JsObject([location |-> JsString("San Francisco")])]
      [] text = "{}" -> [ok |-> TRUE, value |-> EmptyObject]
      [] text = "null" -> [ok |-> TRUE, value |-> JsNull]
      [] text = "42" -> [ok |-> TRUE, value |-> JsNumber(42)]
      [] text = "\"hello\"" -> [ok |-> TRUE, value |-> JsString("hello")]
      [] OTHER -> [ok |-> FALSE, value |-> JsUndefined]

(***************************************************************************)
(* src/lib/session.js                                                      *)
(***************************************************************************)
MAX_HISTORY == 20

\* getConversationHistory(sessionId): the store after the call and the
\* array it returns (the stored array itself).
getConversationHistory(conv, sessionId) ==
    LET sid == IF sessionId \in {UNDEFINED, NULL} THEN "default" ELSE sessionId
        store == IF sid \in DOMAIN conv THEN conv ELSE MapSet(conv, sid, <<>>)
    IN  [store |-> store, sid |-> sid, history |-> store[sid]]

\* history.splice(0, history.length - 20) when history.length > 20.
Truncate_keepOldest(history) ==
    IF Len(history) > MAX_HISTORY THEN SubSeq(history, 1, MAX_HISTORY) ELSE history

Truncate_offByOne(history) ==
    IF Len(history) > MAX_HISTORY + 1
    THEN SubSeq(history, Len(history) - MAX_HISTORY, Len(history))
    ELSE history

Truncate_oddCap(history) ==
    IF Len(history) > MAX_HISTORY - 1
    THEN SubSeq(history, Len(history) - MAX_HISTORY + 2, Len(history))
    ELSE history

Truncate(history) ==
    IF Len(history) > MAX_HISTORY
    THEN SubSeq(history, Len(history) - MAX_HISTORY + 1, Len(history))
    ELSE history

\* addToConversationHistory(sessionId = 'default', role, content)
addToConversationHistory(conv, sessionId, role, content) ==
    LET id == IF sessionId = UNDEFINED THEN "default" ELSE sessionId
        got == getConversationHistory(conv, id)
        pushed == Append(got.history, [role |-> role, content |-> content])
    IN  MapSet(got.store, got.sid, Truncate(pushed))

clearConversation_wrongKey(conv, sessionId) == MapDelete(conv, "default")

clearConversation_clearsAll(conv, sessionId) == EmptyMap

\* clearConversation(sessionId = 'default')
clearConversation(conv, sessionId) ==
    LET id == IF sessionId = UNDEFINED THEN "default" ELSE sessionId
    IN  MapDelete(conv, id)

(***************************************************************************)
(* SpecStore: getConversationHistory, addToConversationHistory and         *)
(* clearConversation called in any order with any argument.  The store     *)
(* never inspects a Turn: the n-th Turn appended to key k since k was last *)
(* cleared carries the content <<k, n>>, so that a lost, duplicated,       *)
(* reordered or misplaced Turn shows.  Its role is drawn freely for the    *)
(* first MaxFreeRole Turns and alternates after them, the way              *)
(* saveConversationHistory appends.                                        *)
(***************************************************************************)
MaxAppends == 22
MaxFreeRole == 2

StoreArgs == {UNDEFINED, "default", "s1"}

NoOp == [op |-> "none", arg |-> UNDEFINED, before |-> EmptyMap]

\* The Turns appended to key k since it was last cleared.
LogOf(k) == IF k \in DOMAIN appended THEN appended[k] ELSE <<>>

KeyOf(arg) == IF arg = UNDEFINED THEN "default" ELSE arg

RolesAt(n) ==
    IF n <= MaxFreeRole THEN Roles
    ELSE IF n % 2 = 1 THEN {"user"} ELSE {"assistant"}

\* The state after the module is loaded: session.js:2 builds an empty Map.
\* No request has arrived and nothing has been handed to extractToolCall.
InitStore ==
    /\ conversations = EmptyMap
    /\ appended = EmptyMap
    /\ lastOp = NoOp
    /\ req = <<>>
    /\ delivered = [kind |-> "none"]
    /\ response = JsUndefined
    /\ extracted = [state |-> "idle", value |-> JsUndefined]

StoreGet(arg) ==
    /\ conversations' = getConversationHistory(conversations, arg).store
    /\ lastOp' = [op |-> "get", arg |-> arg, before |-> conversations]
    /\ UNCHANGED <<appended, handlerVars, extractVars>>

StoreAppend(arg) ==
    LET k == KeyOf(arg)
        n == Len(LogOf(k)) + 1
    IN  /\ n <= MaxAppends
        /\ \E role \in RolesAt(n) :
            /\ conversations' = addToConversationHistory(conversations, arg, role, <<k, n>>)
            /\ appended' = MapSet(appended, k,
                                  Append(LogOf(k), [role |-> role, content |-> <<k, n>>]))
        /\ lastOp' = [op |-> "append", arg |-> arg, before |-> conversations]
        /\ UNCHANGED <<handlerVars, extractVars>>

StoreClear(arg) ==
    /\ conversations' = clearConversation(conversations, arg)
    /\ appended' = MapDelete(appended, KeyOf(arg))
    /\ lastOp' = [op |-> "clear", arg |-> arg, before |-> conversations]
    /\ UNCHANGED <<handlerVars, extractVars>>

NextStore ==
    \E arg \in StoreArgs :
        \/ StoreGet(arg)
        \/ StoreAppend(arg)
        \/ StoreClear(arg)

SpecStore == InitStore /\ [][NextStore]_vars

(***************************************************************************)
(* Claims about the store                                                  *)
(***************************************************************************)

\* C1: in every reachable state every session's stored Turn sequence has
\* length at most 20.
C1_HistoryBounded ==
    \A k \in DOMAIN conversations : Len(conversations[k]) <= MAX_HISTORY

\* A session that received more than 20 Turns and holds exactly 20.
C1_Witness ==
    \E k \in DOMAIN conversations :
        /\ Len(LogOf(k)) > MAX_HISTORY
        /\ Len(conversations[k]) = MAX_HISTORY

\* C2: after N appends to a session with no clear in between, the stored
\* sequence is, in order and unaltered, the last min(N, 20) appended Turns.
C2_StoredIsLastAppended ==
    \A k \in DOMAIN conversations :
        conversations[k] = LastN(LogOf(k), MAX_HISTORY)

\* Two Turns were discarded: the stored sequence starts at the third Turn
\* appended and ends at the 22nd.
C2_Witness ==
    \E k \in DOMAIN conversations :
        /\ Len(LogOf(k)) = MAX_HISTORY + 2
        /\ conversations[k][1] = LogOf(k)[3]
        /\ conversations[k][MAX_HISTORY] = LogOf(k)[MAX_HISTORY + 2]

\* C8: clearConversation is idempotent and total.  Right after a clear of
\* an id: the id has no entry and every other entry is as it was; if the id
\* had no entry the store is as it was; clearing it again changes nothing;
\* and a get on it returns an empty history.
C8_ClearIdempotent ==
    lastOp.op = "clear" =>
        LET k == KeyOf(lastOp.arg) IN
        /\ k \notin DOMAIN conversations
        /\ conversations = [x \in (DOMAIN lastOp.before) \ {k} |-> lastOp.before[x]]
        /\ (k \notin DOMAIN lastOp.before => conversations = lastOp.before)
        /\ clearConversation(conversations, lastOp.arg) = conversations
        /\ getConversationHistory(conversations, lastOp.arg).history = <<>>

\* An id with no entry was cleared (never created, or cleared before) while
\* another session holds Turns.
C8_Witness ==
    /\ lastOp.op = "clear"
    /\ KeyOf(lastOp.arg) \notin DOMAIN lastOp.before
    /\ \E x \in DOMAIN conversations : Len(conversations[x]) > 0

(***************************************************************************)
(* src/lib/extractToolCall.js                                              *)
(* A call's outcome is [threw, value]: threw is an uncaught TypeError.     *)
(***************************************************************************)
Returned(v) == [threw |-> FALSE, value |-> v]
Threw == [threw |-> TRUE, value |-> JsUndefined]

\* parseArgs(maybe)
parseArgs(maybe) ==
    IF Nullish(maybe) THEN JsNull
    ELSE IF maybe.t \in {"object", "array"} THEN maybe
    ELSE IF maybe.t = "string"
         THEN IF JSON_parse(maybe.v).ok THEN JSON_parse(maybe.v).value ELSE JsNull
    ELSE JsNull

ToolCall_rawIsArgs(source, name, args, raw) ==
    JsObject([source |-> JsString(source), name |-> name, args |-> args, raw |-> args])

\* { source, name, args, raw }
ToolCall(source, name, args, raw) ==
    JsObject([source |-> JsString(source), name |-> name, args |-> args, raw |-> raw])

\* const choice = completion?.choices?.[0]; const message = choice?.message ?? {};
MessageOf(completion) ==
    Coalesce(OptProp(OptFirst(OptProp(completion, "choices")), "message"), EmptyObject)

\* Each of the six tests of the chain: hit says that the function leaves at
\* this test (by return or by throwing), out is how.
Miss == [hit |-> FALSE, out |-> Returned(JsNull)]

\* if (message.function_call) { ... }
tryFunctionCall(completion) ==
    LET fc == Prop(MessageOf(completion), "function_call")
    IN  IF ~Truthy(fc) THEN Miss
        ELSE [hit |-> TRUE,
              out |-> Returned(ToolCall("function_call",
                                        Coalesce(Prop(fc, "name"), JsNull),
                                        parseArgs(Prop(fc, "arguments")),
                                        fc))]

\* The body shared by message.tool_call and message.metadata.tool_call.
fromToolCall(source, tc) ==
    Returned(ToolCall(source,
                      Coalesce(Prop(tc, "name"), JsNull),
                      parseArgs(Coalesce(Coalesce(Prop(tc, "arguments"), Prop(tc, "args")), tc)),
                      tc))

\* if (message.tool_call) { ... }
tryToolCall(completion) ==
    LET tc == Prop(MessageOf(completion), "tool_call")
    IN  IF ~Truthy(tc) THEN Miss
        ELSE [hit |-> TRUE, out |-> fromToolCall("tool_call", tc)]

\* if (message.metadata?.tool_call) { ... }
tryMetadataToolCall(completion) ==
    LET tc == OptProp(Prop(MessageOf(completion), "metadata"), "tool_call")
    IN  IF ~Truthy(tc) THEN Miss
        ELSE [hit |-> TRUE, out |-> fromToolCall("metadata.tool_call", tc)]

\* if (message.tool_calls && Array.isArray(message.tool_calls) && message.tool_calls.length > 0) { ... }
tryToolCalls(completion) ==
    LET calls == Prop(MessageOf(completion), "tool_calls")
    IN  IF ~(Truthy(calls) /\ IsArray(calls) /\ Len(calls.a) > 0) THEN Miss
        ELSE LET tc == First(calls)
                 fn == OptProp(tc, "function")
             IN  IF Nullish(tc)
                 THEN [hit |-> TRUE, out |-> Threw]   \* tc.function on null
                 ELSE [hit |-> TRUE,
                       out |-> Returned(ToolCall(
                           "tool_calls[0]",
                           Coalesce(Coalesce(OptProp(fn, "name"), Prop(tc, "name")), JsNull),
                           parseArgs(Coalesce(Coalesce(Coalesce(OptProp(fn, "arguments"),
                                                                OptProp(fn, "args")),
                                                       fn),
                                              tc)),
                           tc))]

IsToolUse(block) == Prop(block, "type") = JsString("tool_use")

\* if (message.content && Array.isArray(message.content)) { find tool_use ... }
tryToolUse(completion) ==
    LET content == Prop(MessageOf(completion), "content")
    IN  IF ~(Truthy(content) /\ IsArray(content)) THEN Miss
        ELSE LET found == FindIndex(content.a, IsToolUse)
             IN  IF found.threw THEN [hit |-> TRUE, out |-> Threw]   \* block.type on null
                 ELSE IF found.index = 0 THEN Miss
                 ELSE LET toolUse == content.a[found.index]
                      IN  [hit |-> TRUE,
                           out |-> Returned(ToolCall("anthropic.tool_use",
                                                     Coalesce(Prop(toolUse, "name"), JsNull),
                                                     parseArgs(Prop(toolUse, "input")),
                                                     toolUse))]

HasFunctionCall(part) == Truthy(Prop(part, "function_call"))

\* const candidate = completion?.candidates?.[0]; if (candidate?.content?.parts && ...) { ... }
tryGeminiFunctionCall(completion) ==
    LET candidate == OptFirst(OptProp(completion, "candidates"))
        parts == OptProp(OptProp(candidate, "content"), "parts")
    IN  IF ~(Truthy(parts) /\ IsArray(parts)) THEN Miss
        ELSE LET found == FindIndex(parts.a, HasFunctionCall)
             IN  IF found.threw THEN [hit |-> TRUE, out |-> Threw]   \* part.function_call on null
                 ELSE IF found.index = 0 THEN Miss
                 ELSE LET fc == Prop(parts.a[found.index], "function_call")
                      IN  [hit |-> TRUE,
                           out |-> Returned(ToolCall("gemini.function_call",
                                                     Coalesce(Prop(fc, "name"), JsNull),
                                                     parseArgs(Coalesce(Prop(fc, "args"),
                                                                        Prop(fc, "arguments"))),
                                                     fc))]

\* The chain with the tool_calls array (the current standard) tested first.
extractToolCall_arrayFirst(completion) ==
    IF tryToolCalls(completion).hit THEN tryToolCalls(completion).out
    ELSE IF tryFunctionCall(completion).hit THEN tryFunctionCall(completion).out
    ELSE IF tryToolCall(completion).hit THEN tryToolCall(completion).out
    ELSE IF tryMetadataToolCall(completion).hit THEN tryMetadataToolCall(completion).out
    ELSE IF tryToolUse(completion).hit THEN tryToolUse(completion).out
    ELSE IF tryGeminiFunctionCall(completion).hit THEN tryGeminiFunctionCall(completion).out
    ELSE Returned(JsNull)

\* extractToolCall(completion)
extractToolCall(completion) ==
    IF tryFunctionCall(completion).hit THEN tryFunctionCall(completion).out
    ELSE IF tryToolCall(completion).hit THEN tryToolCall(completion).out
    ELSE IF tryMetadataToolCall(completion).hit THEN tryMetadataToolCall(completion).out
    ELSE IF tryToolCalls(completion).hit THEN tryToolCalls(completion).out
    ELSE IF tryToolUse(completion).hit THEN tryToolUse(completion).out
    ELSE IF tryGeminiFunctionCall(completion).hit THEN tryGeminiFunctionCall(completion).out
    ELSE Returned(JsNull)

(***************************************************************************)
(* SpecExtract: extractToolCall applied once to a raw response drawn from  *)
(* a bounded set: every combination of the fields the six tests read, each *)
(* absent or holding one of a few fragments (the six tests' fixtures of    *)
(* the repository's test file among them), and a few degenerate responses. *)
(***************************************************************************)
Absent == [t |-> "absent"]

\* An object literal with the fields of p that are not Absent.
MakeObject(p) == JsObject([n \in {m \in DOMAIN p : p[m] # Absent} |-> p[n]])

SanFrancisco == JsObject([location |-> JsString("San Francisco")])

FunctionCallValues ==
    { Absent,
      JsNull,
      EmptyObject,
      JsObject([name |-> JsString("doThing"), arguments |-> JsString("{\"x\":1}")]),
      JsObject([name |-> JsString("broken"), arguments |-> JsString("not json")]) }

ToolCallValues ==
    { Absent,
      JsObject([name |-> JsString("search"),
                arguments |-> JsObject([q |-> JsString("hello")])]),
      JsObject([name |-> JsString("lookup"), args |-> JsString("42")]),
      JsObject([name |-> JsString("bad"), arguments |-> JsString("{\"x\":")]),
      JsString("{\"x\":1}"),
      EmptyObject }

MetadataValues ==
    { Absent,
      EmptyObject,
      JsObject([tool_call |-> JsObject([name |-> JsString("meta"),
                                        arguments |-> JsString("{}")])]),
      JsObject([tool_call |-> EmptyObject]) }

ToolCallsValues ==
    { Absent,
      JsArray(<<>>),
      JsArray(<<JsObject([id |-> JsString("call_abc123"),
                          type |-> JsString("function"),
                          function |-> JsObject([name |-> JsString("get_weather"),
                                                 arguments |-> JsString("{\"location\": \"San Francisco\"}")])])>>),
      JsArray(<<JsObject([name |-> JsString("top"), args |-> JsObject([k |-> JsNumber(1)])])>>),
      JsArray(<<JsObject([function |-> JsObject([name |-> JsString("broken"),
                                                 arguments |-> JsString("not json")])])>>),
      JsArray(<<JsObject([name |-> JsString("top"), args |-> JsString("not json")])>>),
      JsArray(<<JsNull>>),
      JsArray(<<EmptyObject>>) }

TextBlock == JsObject([type |-> JsString("text"), text |-> JsString("I need to check the weather.")])

ToolUseBlock ==
    JsObject([type |-> JsString("tool_use"), id |-> JsString("toolu_123"),
              name |-> JsString("get_weather"), input |-> SanFrancisco])

ContentValues ==
    { Absent,
      JsString("just text"),
      JsArray(<<TextBlock>>),
      JsArray(<<TextBlock, ToolUseBlock>>),
      JsArray(<<JsObject([type |-> JsString("tool_use"), name |-> JsString("broken"),
                          input |-> JsString("not json")])>>),
      JsArray(<<JsNull, ToolUseBlock>>),
      JsArray(<<JsObject([type |-> JsString("tool_use")])>>) }

GeminiCandidate(parts) == JsObject([content |-> JsObject([parts |-> JsArray(parts)])])

CandidatesValues ==
    { Absent,
      JsArray(<<GeminiCandidate(<<JsObject([text |-> JsString("hi")])>>)>>),
      JsArray(<<GeminiCandidate(<<JsObject([function_call |->
                    JsObject([name |-> JsString("get_weather"), args |-> SanFrancisco])])>>)>>),
      JsArray(<<GeminiCandidate(<<JsObject([function_call |->
                    JsObject([name |-> JsString("broken"), args |-> JsString("")])])>>)>>),
      JsArray(<<GeminiCandidate(<<JsNull>>)>>),
      JsArray(<<GeminiCandidate(<<JsObject([function_call |-> EmptyObject])>>)>>) }

DegenerateCompletions ==
    { JsUndefined,
      JsNull,
      EmptyObject,
      JsObject([choices |-> JsArray(<<>>)]),
      JsObject([choices |-> JsArray(<<JsNull>>)]),
      JsObject([choices |-> JsArray(<<EmptyObject>>)]),
      JsObject([choices |-> JsArray(<<JsObject([message |-> JsNull])>>)]) }

Completions ==
    DegenerateCompletions \cup
    { MakeObject([choices |-> JsArray(<<JsObject([message |->
                      MakeObject([function_call |-> fc, tool_call |-> tc, metadata |-> md,
                                  tool_calls |-> tcs, content |-> ct])])>>),
                  candidates |-> cd]) :
        fc \in FunctionCallValues, tc \in ToolCallValues, md \in MetadataValues,
        tcs \in ToolCallsValues, ct \in ContentValues, cd \in CandidatesValues }

InitExtract ==
    /\ conversations = EmptyMap
    /\ appended = EmptyMap
    /\ lastOp = NoOp
    /\ req = <<>>
    /\ delivered = [kind |-> "none"]
    /\ response \in Completions
    /\ extracted = [state |-> "idle", value |-> JsUndefined]

\* const toolCall = extractToolCall(completion);
Extract ==
    /\ extracted.state = "idle"
    /\ LET out == extractToolCall(response)
       IN  extracted' = [state |-> IF out.threw THEN "threw" ELSE "returned",
                         value |-> out.value]
    /\ UNCHANGED <<storeVars, handlerVars, response>>

NextExtract == Extract

SpecExtract == InitExtract /\ [][NextExtract]_vars

(***************************************************************************)
(* Claims about extractToolCall                                            *)
(***************************************************************************)

\* C9: extractToolCall never throws, whatever the raw response (null
\* entries inside tool_calls, content or parts included).
C9_NeverThrows == extracted.state # "threw"

ShapeTag ==
    <<"function_call", "tool_call", "metadata.tool_call", "tool_calls[0]",
      "anthropic.tool_use", "gemini.function_call">>

ShapeField == <<"function_call", "tool_call", "metadata", "tool_calls", "content">>

\* The response with everything but what shape i reads removed.
Only(i, completion) ==
    IF i = 6
    THEN MakeObject([candidates |-> IF Nullish(completion) \/ Prop(completion, "candidates") = JsUndefined
                                    THEN Absent ELSE Prop(completion, "candidates")])
    ELSE LET message == MessageOf(completion)
             kept == IF message.t = "object" THEN {ShapeField[i]} \cap DOMAIN message.f ELSE {}
         IN  JsObject([choices |-> JsArray(<<JsObject([message |->
                          JsObject([n \in kept |-> message.f[n]])])>>)])

\* Shape i is present: alone, it makes extractToolCall return a tool call
\* (or fail on it).
Matches(i, completion) == extractToolCall(Only(i, completion)) # Returned(JsNull)

MatchingShapes(completion) == {i \in 1..6 : Matches(i, completion)}

\* C10: the six shapes are tried in the fixed order 1..6 and the first
\* match wins: the result is exactly what the lowest-numbered matching shape
\* yields alone (its tag, name, args and raw), whatever other shapes the
\* response also satisfies; with no matching shape the result is null.
C10_FirstMatchWins ==
    extracted.state # "idle" =>
        LET M == MatchingShapes(response)
            out == [threw |-> extracted.state = "threw", value |-> extracted.value]
        IN  IF M = {} THEN out = Returned(JsNull)
            ELSE /\ out = extractToolCall(Only(SetMin(M), response))
                 /\ ~out.threw => Prop(out.value, "source") = JsString(ShapeTag[SetMin(M)])

\* A response satisfying shapes 2, 4 and 6 at once was normalized from its
\* tool_call alone.
C10_Witness ==
    /\ extracted.state = "returned"
    /\ MatchingShapes(response) = {2, 4, 6}
    /\ Prop(extracted.value, "source") = JsString("tool_call")
    /\ Prop(extracted.value, "raw") = Prop(MessageOf(response), "tool_call")

(***************************************************************************)
(* The six shapes as the normalizer's contract describes them: where a     *)
(* shape keeps its fragment, its name and its arguments value.             *)
(***************************************************************************)
\* The first entry of an array-valued field that passes Test, JsUndefined
\* where the field is no array or no entry passes.
FirstWhere(field, Test(_)) ==
    LET hits == IF IsArray(field)
                THEN {k \in 1..Len(field.a) : ~Nullish(field.a[k]) /\ Test(field.a[k])}
                ELSE {}
    IN  IF hits = {} THEN JsUndefined ELSE field.a[SetMin(hits)]

\* The fragment of shape i in a response, JsUndefined where it has none.
ShapeFragment(i, completion) ==
    LET message == MessageOf(completion)
    IN  CASE i = 1 -> Prop(message, "function_call")
          [] i = 2 -> Prop(message, "tool_call")
          [] i = 3 -> OptProp(Prop(message, "metadata"), "tool_call")
          [] i = 4 -> First(Prop(message, "tool_calls"))
          [] i = 5 -> FirstWhere(Prop(message, "content"), IsToolUse)
          [] i = 6 -> OptProp(FirstWhere(
                          OptProp(OptProp(OptFirst(OptProp(completion, "candidates")),
                                          "content"), "parts"),
                          HasFunctionCall), "function_call")

\* The shapes a response holds a fragment of.
PresentShapes(completion) == {i \in 1..6 : Truthy(ShapeFragment(i, completion))}

\* Shape 4 keeps name and arguments under the entry's function sub-object.
HasFunctionObject(frag) == ~Nullish(Prop(frag, "function"))

\* The name field of shape i's fragment; for shape 4 the nested function's
\* name, the entry's top-level name when there is no function sub-object.
ShapeName(i, frag) ==
    IF i = 4 /\ HasFunctionObject(frag) THEN Prop(Prop(frag, "function"), "name")
    ELSE Prop(frag, "name")

\* The arguments value of shape i's fragment: arguments (1), one of
\* arguments / args / the whole object (2, 3), the nested function's
\* arguments with the entry's top-level args as fallback (4), input (5),
\* one of args / arguments (6).
ShapeArguments(i, frag) ==
    CASE i = 1 -> Prop(frag, "arguments")
      [] i \in {2, 3} -> Coalesce(Coalesce(Prop(frag, "arguments"), Prop(frag, "args")), frag)
      [] i = 4 -> IF HasFunctionObject(frag)
                  THEN Coalesce(Prop(Prop(frag, "function"), "arguments"),
                                Prop(Prop(frag, "function"), "args"))
                  ELSE Prop(frag, "args")
      [] i = 5 -> Prop(frag, "input")
      [] i = 6 -> Coalesce(Prop(frag, "args"), Prop(frag, "arguments"))

IsStructured(v) == v.t \in {"object", "array"}
IsJsonText(v) == v.t = "string" /\ JSON_parse(v.v).ok
IsBrokenText(v) == v.t = "string" /\ ~JSON_parse(v.v).ok

\* The value an arguments value stands for: itself, or what its text encodes.
Decoded(v) == IF v.t = "string" THEN JSON_parse(v.v).value ELSE v

\* C11: for a response that holds exactly one of the six shapes, whose
\* arguments value is an object or a JSON string, extractToolCall returns a
\* ToolCall with that shape's tag, the shape's name and the arguments value
\* (an object as is, a JSON string decoded).
C11_SingleShape ==
    extracted.state # "idle" =>
        \A i \in 1..6 :
            LET frag == ShapeFragment(i, response)
                av == ShapeArguments(i, frag)
            IN  (PresentShapes(response) = {i} /\ (IsStructured(av) \/ IsJsonText(av))) =>
                    /\ extracted.state = "returned"
                    /\ Prop(extracted.value, "source") = JsString(ShapeTag[i])
                    /\ Prop(extracted.value, "name") = Coalesce(ShapeName(i, frag), JsNull)
                    /\ Prop(extracted.value, "args") = Decoded(av)

\* C12: whenever the arguments value of the matched shape is a string that
\* is not valid JSON, extractToolCall returns a ToolCall whose args is null
\* and whose raw is the shape's fragment.
C12_BrokenJsonKeepsRaw ==
    (extracted.state # "idle" /\ PresentShapes(response) # {}) =>
        LET i == SetMin(PresentShapes(response))
            frag == ShapeFragment(i, response)
        IN  IsBrokenText(ShapeArguments(i, frag)) =>
                /\ extracted.state = "returned"
                /\ extracted.value # JsNull
                /\ Prop(extracted.value, "args") = JsNull
                /\ Prop(extracted.value, "raw") = frag
                /\ ~Nullish(frag)

\* C13: when tool_calls[0] is the matched shape, name and args come from
\* its function sub-object; without that sub-object, name is the entry's
\* top-level name and args the entry's top-level args.
C13_ToolCallsFallback ==
    (extracted.state # "idle" /\ PresentShapes(response) # {}
        /\ SetMin(PresentShapes(response)) = 4) =>
        LET frag == ShapeFragment(4, response)
            av == ShapeArguments(4, frag)
        IN  /\ extracted.state = "returned"
            /\ Prop(extracted.value, "name") = Coalesce(ShapeName(4, frag), JsNull)
            /\ (IsStructured(av) \/ IsJsonText(av)) => Prop(extracted.value, "args") = Decoded(av)

(***************************************************************************)
(* src/lib/session.js: session ids                                         *)
(***************************************************************************)
\* generateSessionId(): Math.random().toString(16).slice(2, 8), the first
\* six hexadecimal digits after "0." of a random number in [0, 1).  The
\* model draws from three of its outcomes: '' (Math.random() = 0, whose
\* text "0" has nothing after position 2), '8' (0.5, "0.8") and a
\* six-digit token.  Nothing makes two draws differ.
GeneratedTokens == {"", "8", "a3f9c1"}

resolveSessionId_regenerates(sessionId, createIfDefault, token) ==
    IF createIfDefault THEN [id |-> token, drew |-> TRUE]
    ELSE [id |-> "default", drew |-> FALSE]

\* resolveSessionId(sessionId, { createIfDefault = true } = {}); token is
\* what generateSessionId() returns if it is called, drew whether it was.
resolveSessionId(sessionId, createIfDefault, token) ==
    IF Falsy(sessionId)
    THEN IF createIfDefault THEN [id |-> token, drew |-> TRUE]
         ELSE [id |-> "default", drew |-> FALSE]
    ELSE IF sessionId = "default" /\ createIfDefault THEN [id |-> token, drew |-> TRUE]
    ELSE [id |-> sessionId, drew |-> FALSE]

(***************************************************************************)
(* src/index.js and the zod schemas (lib/schemas.js)                       *)
(***************************************************************************)
\* The shared preamble (index.js:18), abbreviated.
SYSTEM_PROMPT == JsString("You're having a relaxed conversation with another AI model. [...]")

NoResponse == JsString("No response generated")

AskTools == {"ask_gpt", "ask_claude", "ask_gemini", "ask_openrouter"}

\* The schemas' model defaults.
DefaultModel(tool) ==
    CASE tool = "ask_gpt" -> "gpt-5"
      [] tool = "ask_claude" -> "claude-sonnet-4-20250514"
      [] tool = "ask_gemini" -> "gemini-2.5-flash"
      [] tool = "ask_openrouter" -> "qwen/qwen3-235b-a22b-07-25"

SchemaParse_lenient(tool, args) ==
    [ok |-> TRUE,
     value |-> [question |-> args.question,
                model |-> IF args.model = UNDEFINED THEN DefaultModel(tool) ELSE args.model,
                tools |-> args.tools,
                session_id |-> IF args.session_id = UNDEFINED THEN "default"
                               ELSE args.session_id]]

\* Ask*Schema.parse(args): question must be a string; model and session_id
\* take their defaults when omitted; tools is anything, optional.
SchemaParse(tool, args) ==
    IF args.question.t # "string" THEN [ok |-> FALSE, value |-> args]
    ELSE [ok |-> TRUE,
          value |-> [question |-> args.question,
                     model |-> IF args.model = UNDEFINED THEN DefaultModel(tool) ELSE args.model,
                     tools |-> args.tools,
                     session_id |-> IF args.session_id = UNDEFINED THEN "default"
                                    ELSE args.session_id]]

setupConversationContext_keepsSentinel(conv, sessionId, token) ==
    LET resolved == resolveSessionId(sessionId, FALSE, token)
        got == getConversationHistory(conv, resolved.id)
    IN  [resolvedSessionId |-> resolved.id, drew |-> resolved.drew,
         history |-> got.history, store |-> got.store]

\* setupConversationContext(sessionId, question)
setupConversationContext(conv, sessionId, token) ==
    LET resolved == resolveSessionId(sessionId, TRUE, token)
        got == getConversationHistory(conv, resolved.id)
    IN  [resolvedSessionId |-> resolved.id, drew |-> resolved.drew,
         history |-> got.history, store |-> got.store]

saveConversationHistory_answerFirst(conv, sessionId, question, answer) ==
    addToConversationHistory(
        addToConversationHistory(conv, sessionId, "assistant", answer),
        sessionId, "user", question)

\* saveConversationHistory(sessionId, question, answer)
saveConversationHistory(conv, sessionId, question, answer) ==
    addToConversationHistory(
        addToConversationHistory(conv, sessionId, "user", question),
        sessionId, "assistant", answer)

\* JSON.stringify(v), kept as the value it is the text of.
JSON_stringify(v) == [t |-> "string", json |-> v]

\* A template literal or a + concatenation: the pieces in order.
ContinuationHint(sessionId) ==
    <<"\n\nIf you want to continue this conversation, specify session_id=\"", sessionId, "\".">>

\* formatResponse(answer, sessionId, toolCall = null)
formatResponse(answer, sessionId, toolCall) ==
    LET first == [type |-> "text", text |-> <<answer>> \o ContinuationHint(sessionId)]
    IN  IF Truthy(toolCall)
        THEN [content |-> <<first, [type |-> "text",
                                    text |-> <<"tool_call: ", JSON_stringify(toolCall)>>]>>,
              session_id |-> sessionId,
              tool_call |-> toolCall]
        ELSE [content |-> <<first>>, session_id |-> sessionId]

handleAPIError_genericOnly(error, providerName, apiKeyEnvVar) ==
    <<providerName, " API error: ", Prop(error, "message")>>

\* handleAPIError(error, providerName, apiKeyEnvVar): the message of the
\* Error it throws.
handleAPIError(error, providerName, apiKeyEnvVar) ==
    IF Prop(error, "status") = JsNumber(401)
    THEN <<providerName, " API key is invalid or missing. Please set ", apiKeyEnvVar,
           " environment variable.">>
    ELSE IF Prop(error, "status") = JsNumber(429)
    THEN <<providerName, " API rate limit exceeded. Please try again later.">>
    ELSE <<providerName, " API error: ", Prop(error, "message")>>

\* A TypeError raised by the handler's own code inside its try block.
TypeError == JsObject([name |-> JsString("TypeError"),
                       message |-> JsString("Cannot read properties of undefined")])

\* What the handler does to the store and hands to its caller.
ReturnsWith(store, value) == [store |-> store, threw |-> FALSE, value |-> value]
ThrowsWith_forgetsSessions(store, message) == [store |-> EmptyMap, threw |-> TRUE, value |-> message]
ThrowsWith(store, message) == [store |-> store, threw |-> TRUE, value |-> message]

\* if (validated.tools) requestParams.tools = validated.tools;
WithTools(params, tools) == IF Truthy(tools) THEN params @@ [tools |-> tools] ELSE params

FlatMessages_dropsHistory(history, question) ==
    <<[role |-> "system", content |-> SYSTEM_PROMPT], [role |-> "user", content |-> question]>>

\* handleGPTRequest / handleOpenRouterRequest: system prompt, history, question.
FlatMessages(history, question) ==
    <<[role |-> "system", content |-> SYSTEM_PROMPT]>>
        \o history \o <<[role |-> "user", content |-> question]>>

GeminiHistory_keepsRoles(history) ==
    [i \in 1..Len(history) |->
        [role |-> history[i].role, parts |-> <<[text |-> history[i].content]>>]]

\* handleGeminiRequest: history.map(msg => ({ role, parts: [{ text }] }))
GeminiHistory(history) ==
    [i \in 1..Len(history) |->
        [role |-> IF history[i].role = "assistant" THEN "model" ELSE "user",
         parts |-> <<[text |-> history[i].content]>>]]

RequestParams_inlinePreamble(tool, validated, history) ==
    CASE tool \in {"ask_gpt", "ask_openrouter", "ask_claude"} ->
            WithTools([model |-> validated.model,
                       system |-> SYSTEM_PROMPT,
                       messages |-> <<[role |-> "system", content |-> SYSTEM_PROMPT]>>
                                    \o history
                                    \o <<[role |-> "user", content |-> validated.question]>>],
                      validated.tools)
      [] tool = "ask_gemini" ->
            WithTools([model |-> validated.model,
                       contents |-> <<[role |-> "user", parts |-> <<[text |-> validated.question]>>]>>,
                       systemInstruction |-> [role |-> "system", parts |-> <<[text |-> SYSTEM_PROMPT]>>]],
                      validated.tools)

\* The requestParams each handler builds before its provider call.
RequestParams(tool, validated, history) ==
    CASE tool \in {"ask_gpt", "ask_openrouter"} ->
            WithTools([model |-> validated.model,
                       messages |-> FlatMessages(history, validated.question)],
                      validated.tools)
      [] tool = "ask_claude" ->
            WithTools([model |-> validated.model,
                       system |-> SYSTEM_PROMPT,
                       messages |-> history \o <<[role |-> "user", content |-> validated.question]>>],
                      validated.tools)
      [] tool = "ask_gemini" ->
            WithTools([model |-> validated.model,
                       contents |-> GeminiHistory(history)
                                    \o <<[role |-> "user", parts |-> <<[text |-> validated.question]>>]>>,
                       systemInstruction |-> [role |-> "system", parts |-> <<[text |-> SYSTEM_PROMPT]>>]],
                      validated.tools)

\* The part of handleGPTRequest after its await: reply is the settled
\* promise, [ok |-> TRUE, value] or [ok |-> FALSE, error].
handleGPTRequest_recordsQuestionFirst(conv, resolvedSessionId, question, reply) ==
    LET early == addToConversationHistory(conv, resolvedSessionId, "user", question)
    IN  IF ~reply.ok
        THEN ThrowsWith(early, handleAPIError(reply.error, "OpenAI", "OPENAI_API_KEY"))
        ELSE IF Nullish(reply.value) \/ Nullish(Prop(reply.value, "choices"))
        THEN ThrowsWith(early, handleAPIError(TypeError, "OpenAI", "OPENAI_API_KEY"))
        ELSE LET content == OptProp(OptProp(First(Prop(reply.value, "choices")), "message"), "content")
                 answer == IF Truthy(content) THEN content ELSE NoResponse
             IN  ReturnsWith(addToConversationHistory(early, resolvedSessionId, "assistant", answer),
                             formatResponse(answer, resolvedSessionId, JsNull))

handleGPTRequest(conv, resolvedSessionId, question, reply) ==
    IF ~reply.ok
    THEN ThrowsWith(conv, handleAPIError(reply.error, "OpenAI", "OPENAI_API_KEY"))
    ELSE IF Nullish(reply.value) \/ Nullish(Prop(reply.value, "choices"))
    THEN \* completion.choices[0] throws inside the try block
         ThrowsWith(conv, handleAPIError(TypeError, "OpenAI", "OPENAI_API_KEY"))
    ELSE LET content == OptProp(OptProp(First(Prop(reply.value, "choices")), "message"), "content")
             answer == IF Truthy(content) THEN content ELSE NoResponse
         IN  ReturnsWith(saveConversationHistory(conv, resolvedSessionId, question, answer),
                         formatResponse(answer, resolvedSessionId, JsNull))

handleClaudeRequest_dropsSessionOnFailure(conv, resolvedSessionId, question, reply) ==
    IF ~reply.ok
    THEN ThrowsWith(clearConversation(conv, resolvedSessionId),
                    handleAPIError(reply.error, "Anthropic", "ANTHROPIC_API_KEY"))
    ELSE IF Nullish(reply.value) \/ Nullish(Prop(reply.value, "content"))
    THEN ThrowsWith(clearConversation(conv, resolvedSessionId),
                    handleAPIError(TypeError, "Anthropic", "ANTHROPIC_API_KEY"))
    ELSE LET text == OptProp(First(Prop(reply.value, "content")), "text")
             answer == IF Truthy(text) THEN text ELSE NoResponse
         IN  ReturnsWith(saveConversationHistory(conv, resolvedSessionId, question, answer),
                         formatResponse(answer, resolvedSessionId, JsNull))

\* The part of handleClaudeRequest after its await.
handleClaudeRequest(conv, resolvedSessionId, question, reply) ==
    IF ~reply.ok
    THEN ThrowsWith(conv, handleAPIError(reply.error, "Anthropic", "ANTHROPIC_API_KEY"))
    ELSE IF Nullish(reply.value) \/ Nullish(Prop(reply.value, "content"))
    THEN \* message.content[0] throws inside the try block
         ThrowsWith(conv, handleAPIError(TypeError, "Anthropic", "ANTHROPIC_API_KEY"))
    ELSE LET text == OptProp(First(Prop(reply.value, "content")), "text")
             answer == IF Truthy(text) THEN text ELSE NoResponse
         IN  ReturnsWith(saveConversationHistory(conv, resolvedSessionId, question, answer),
                         formatResponse(answer, resolvedSessionId, JsNull))

\* error.message?.includes('API_KEY'), on the messages the model uses.
IncludesApiKey(message) ==
    /\ message.t = "string"
    /\ message.v \in {"[400 Bad Request] API key not valid. [reason: API_KEY_INVALID]"}

GoogleError(error) ==
    IF IncludesApiKey(Prop(error, "message"))
    THEN \* the literal of line 354, cut where handleAPIError's template is cut
         <<"Google", " API key is invalid or missing. Please set ", "GOOGLE_API_KEY",
           " environment variable.">>
    ELSE handleAPIError(error, "Google", "GOOGLE_API_KEY")

\* The part of handleGeminiRequest after its first await.  The text() method
\* of result.response is modelled by a text field holding what it returns.
handleGeminiRequest(conv, resolvedSessionId, question, reply) ==
    IF ~reply.ok THEN ThrowsWith(conv, GoogleError(reply.error))
    ELSE IF Nullish(reply.value) \/ Nullish(Prop(reply.value, "response"))
            \/ Prop(Prop(reply.value, "response"), "text") = JsUndefined
    THEN \* result.response or response.text() throws inside the try block
         ThrowsWith(conv, GoogleError(TypeError))
    ELSE LET text == Prop(Prop(reply.value, "response"), "text")
             answer == IF Truthy(text) THEN text ELSE NoResponse
         IN  ReturnsWith(saveConversationHistory(conv, resolvedSessionId, question, answer),
                         formatResponse(answer, resolvedSessionId, JsNull))

\* The part of handleOpenRouterRequest after its await.
handleOpenRouterRequest(conv, resolvedSessionId, question, reply) ==
    IF ~reply.ok
    THEN ThrowsWith(conv, handleAPIError(reply.error, "OpenRouter", "OPENROUTER_API_KEY"))
    ELSE IF Nullish(reply.value) \/ Nullish(Prop(reply.value, "choices"))
    THEN ThrowsWith(conv, handleAPIError(TypeError, "OpenRouter", "OPENROUTER_API_KEY"))
    ELSE LET content == OptProp(OptProp(First(Prop(reply.value, "choices")), "message"), "content")
             answer == IF Truthy(content) THEN content ELSE NoResponse
             toolCall == extractToolCall(reply.value)
         IN  IF toolCall.threw
             THEN \* extractToolCall's TypeError is caught by the same catch
                  ThrowsWith(conv, handleAPIError(TypeError, "OpenRouter", "OPENROUTER_API_KEY"))
             ELSE ReturnsWith(saveConversationHistory(conv, resolvedSessionId, question, answer),
                              formatResponse(answer, resolvedSessionId, toolCall.value))

\* The switch of the CallToolRequestSchema handler, for the four ask tools.
ReceiveReply(tool, conv, resolvedSessionId, question, reply) ==
    CASE tool = "ask_gpt" -> handleGPTRequest(conv, resolvedSessionId, question, reply)
      [] tool = "ask_claude" -> handleClaudeRequest(conv, resolvedSessionId, question, reply)
      [] tool = "ask_gemini" -> handleGeminiRequest(conv, resolvedSessionId, question, reply)
      [] tool = "ask_openrouter" -> handleOpenRouterRequest(conv, resolvedSessionId, question, reply)

\* The text field of a raw response: what each handler's answer expression
\* looks for (choices[0].message.content, content[0].text, response.text()),
\* undefined where the response does not hold it.
TextField(tool, raw) ==
    CASE tool \in {"ask_gpt", "ask_openrouter"} ->
            OptProp(OptProp(OptFirst(OptProp(raw, "choices")), "message"), "content")
      [] tool = "ask_claude" -> OptProp(OptFirst(OptProp(raw, "content")), "text")
      [] tool = "ask_gemini" -> OptProp(OptProp(raw, "response"), "text")

(***************************************************************************)
(* Spec: the tool handlers.  A request is one call of an ask tool; it      *)
(* runs synchronously up to its provider call (Ask), is suspended there,   *)
(* and runs to its end when the call settles (Complete).  Requests         *)
(* interleave only at that suspension point.  clear_conversation has no    *)
(* suspension point (ClearTool).  When a handler has returned or thrown,   *)
(* its locals are gone: req keeps of it what the properties refer to.      *)
(***************************************************************************)
MaxRequests == 2

\* The question and the answer text of the r-th request: distinct texts, so
\* that a stored Turn shows which request wrote it.
Questions == <<"q1", "q2", "q3", "q4">>
Answers == <<"a1", "a2", "a3", "a4">>

\* The session_id arguments a client passes: none, the sentinel, the empty
\* string, and an id that is also a token generateSessionId can draw.
SessionArgs == {UNDEFINED, "default", "", "a3f9c1"}

ModelArgs == {UNDEFINED}

ToolsArgs == {JsUndefined, JsObject([type |-> JsString("function")])}

AskArgs(r) ==
    { [question |-> q, model |-> m, tools |-> t, session_id |-> sid] :
        q \in {JsUndefined, EmptyObject, JsString(Questions[r])},
        m \in ModelArgs, t \in ToolsArgs, sid \in SessionArgs }

\* The errors a provider call rejects with.
ProviderErrors(tool) ==
    { JsObject([status |-> JsNumber(401), message |-> JsString("Unauthorized")]),
      JsObject([status |-> JsNumber(429), message |-> JsString("Too Many Requests")]),
      JsObject([status |-> JsNumber(500), message |-> JsString("Internal Server Error")]) }
    \cup IF tool = "ask_gemini"
         THEN {JsObject([message |->
                  JsString("[400 Bad Request] API key not valid. [reason: API_KEY_INVALID]")])}
         ELSE {}

ChatCompletion(message) == JsObject([choices |-> JsArray(<<JsObject([message |-> message])>>)])

\* The responses a provider call resolves with: an answer text, no usable
\* text, a response without the field the handler indexes, for OpenAI and
\* OpenRouter a tool call, and for OpenRouter a tool_calls array holding null.
ProviderResponses(tool, r) ==
    CASE tool = "ask_gpt" ->
            { ChatCompletion(JsObject([role |-> JsString("assistant"),
                                       content |-> JsString(Answers[r])])),
              ChatCompletion(JsObject([role |-> JsString("assistant"), content |-> JsNull])),
              ChatCompletion(JsObject([role |-> JsString("assistant"), content |-> JsNull,
                                       tool_calls |-> JsArray(<<JsObject([
                                           id |-> JsString("call_abc123"),
                                           type |-> JsString("function"),
                                           function |-> JsObject([
                                               name |-> JsString("get_weather"),
                                               arguments |-> JsString("{\"x\":1}")])])>>)])),
              EmptyObject }
      [] tool = "ask_openrouter" ->
            { ChatCompletion(JsObject([role |-> JsString("assistant"),
                                       content |-> JsString(Answers[r])])),
              ChatCompletion(JsObject([role |-> JsString("assistant"), content |-> JsNull,
                                       tool_calls |-> JsArray(<<JsObject([
                                           id |-> JsString("call_abc123"),
                                           type |-> JsString("function"),
                                           function |-> JsObject([
                                               name |-> JsString("get_weather"),
                                               arguments |-> JsString("{\"x\":1}")])])>>)])),
              ChatCompletion(JsObject([role |-> JsString("assistant"),
                                       content |-> JsString(Answers[r]),
                                       tool_calls |-> JsArray(<<JsNull>>)])),
              EmptyObject }
      [] tool = "ask_claude" ->
            { JsObject([content |-> JsArray(<<JsObject([type |-> JsString("text"),
                                                        text |-> JsString(Answers[r])])>>)]),
              JsObject([content |-> JsArray(<<>>)]),
              EmptyObject }
      [] tool = "ask_gemini" ->
            { JsObject([response |-> JsObject([text |-> JsString(Answers[r])])]),
              JsObject([response |-> JsObject([text |-> JsString("")])]),
              EmptyObject }

Replies(tool, r) ==
    { [ok |-> TRUE, value |-> v, error |-> JsUndefined] : v \in ProviderResponses(tool, r) }
    \cup { [ok |-> FALSE, value |-> JsUndefined, error |-> e] : e \in ProviderErrors(tool) }

Init ==
    /\ conversations = EmptyMap
    /\ appended = EmptyMap
    /\ lastOp = NoOp
    /\ req = <<>>
    /\ delivered = [kind |-> "none"]
    /\ response = JsUndefined
    /\ extracted = [state |-> "idle", value |-> JsUndefined]

\* Whether key id holds the same in both stores (absent in both, or the
\* same sequence).
SameAt(before, after, id) ==
    /\ (id \in DOMAIN before) = (id \in DOMAIN after)
    /\ id \in DOMAIN before => before[id] = after[id]

\* Ghost bookkeeping on the other requests when a step takes the store from
\* before to after: a suspended request notes that the session it read was
\* changed by someone else.
Observe(rec, before, after) ==
    IF rec.pc = "awaiting" /\ ~SameAt(before, after, rec.resolvedSessionId)
    THEN [rec EXCEPT !.undisturbed = FALSE]
    ELSE rec

\* The dispatcher's catch: a ZodError is rethrown as 'Invalid arguments: '
\* followed by its message.
ZodError == JsObject([name |-> JsString("ZodError"), message |-> JsString("[...]")])
InvalidArguments == <<"Invalid arguments: ", Prop(ZodError, "message")>>

\* What is left of a request's locals when its handler is over.
Kept(rec) ==
    [session_id |-> rec.session_id,
     resolvedSessionId |-> rec.resolvedSessionId,
     drew |-> rec.drew,
     question |-> rec.question,
     calls |-> rec.calls]

AfterThrow_retries(rec) ==
    IF rec.calls < 3 THEN [rec EXCEPT !.calls = @ + 1] ELSE Kept(rec) @@ [pc |-> "failed"]

AfterThrow_reissues(rec) ==
    IF rec.calls = 1 THEN [rec EXCEPT !.calls = 2] ELSE Kept(rec) @@ [pc |-> "failed"]

\* The request once its catch block has run: handleAPIError throws, the
\* provider is not called again.
AfterThrow(rec) == Kept(rec) @@ [pc |-> "failed"]

AssembleRequest_pushesQuestion(tool, conv, resolvedSessionId, validated) ==
    [store |-> addToConversationHistory(conv, resolvedSessionId, "user", validated.question),
     params |-> RequestParams(tool, validated, conv[resolvedSessionId])]

\* The try block up to the provider call: messages / contents are built
\* with spread and map from history, which is the stored array itself, and
\* requestParams around them.  store is the Map once they are built.
AssembleRequest(tool, conv, resolvedSessionId, validated) ==
    [store |-> conv,
     params |-> RequestParams(tool, validated, conv[resolvedSessionId])]

\* An ask tool is called with arguments its schema refuses: the ZodError
\* leaves the handler before setupConversationContext, and the dispatcher
\* rethrows it as 'Invalid arguments: ...'.
RejectStep(tool, args) ==
    /\ Len(req) < MaxRequests
    /\ ~SchemaParse(tool, args).ok
    /\ req' = Append(req, [pc |-> "rejected", calls |-> 0])
    /\ UNCHANGED <<storeVars, extractVars>>

RejectDelivery(tool) ==
    [kind |-> "threw", r |-> Len(req) + 1, tool |-> tool,
     value |-> [message |-> InvalidArguments], cause |-> ZodError]

Reject(tool, args) == RejectStep(tool, args) /\ UNCHANGED delivered

\* An ask tool is called: validation, setupConversationContext, the request
\* parameters, and the provider call is issued.  token is what Math.random
\* yields if generateSessionId is called.
AskStep(tool, args, token) ==
    /\ Len(req) < MaxRequests
    /\ SchemaParse(tool, args).ok
    /\ LET validated == SchemaParse(tool, args).value
           ctx == setupConversationContext(conversations, validated.session_id, token)
           built == AssembleRequest(tool, ctx.store, ctx.resolvedSessionId, validated)
       IN  /\ conversations' = built.store
           /\ req' = Append(
                 [i \in 1..Len(req) |-> Observe(req[i], conversations, built.store)],
                 [pc |-> "awaiting",
                  tool |-> tool,
                  session_id |-> validated.session_id,
                  resolvedSessionId |-> ctx.resolvedSessionId,
                  drew |-> ctx.drew,
                  question |-> validated.question,
                  history |-> ctx.history,
                  params |-> built.params,
                  calls |-> 1,
                  undisturbed |-> TRUE,
                  continues |-> {e \in 1..Len(req) :
                                   /\ req[e].pc = "done"
                                   /\ req[e].intact
                                   /\ req[e].returned_session_id = validated.session_id}])
    /\ UNCHANGED <<appended, lastOp, extractVars>>

Ask(tool, args, token) == AskStep(tool, args, token) /\ UNCHANGED delivered

CompleteStep_writesSnapshot(r, reply) ==
    /\ r \in 1..Len(req)
    /\ req[r].pc = "awaiting"
    /\ LET rec == req[r]
           o == ReceiveReply(rec.tool, conversations, rec.resolvedSessionId, rec.question, reply)
           store == IF o.threw THEN o.store
                    ELSE MapSet(conversations, rec.resolvedSessionId,
                                Truncate(rec.history \o
                                    <<[role |-> "user", content |-> rec.question],
                                      [role |-> "assistant",
                                       content |-> o.value.content[1].text[1]]>>))
       IN  /\ conversations' = store
           /\ req' = [i \in 1..Len(req) |->
                        IF i # r THEN Observe(req[i], conversations, store)
                        ELSE IF o.threw THEN AfterThrow(rec)
                        ELSE Kept(rec) @@ [pc |-> "done",
                                           returned_session_id |-> o.value.session_id,
                                           answer |-> o.value.content[1].text[1],
                                           intact |-> TRUE]]
    /\ UNCHANGED <<appended, lastOp, extractVars>>

\* The provider call of request r settles and the handler runs to its end.
CompleteStep(r, reply) ==
    /\ r \in 1..Len(req)
    /\ req[r].pc = "awaiting"
    /\ LET rec == req[r]
           o == ReceiveReply(rec.tool, conversations, rec.resolvedSessionId, rec.question, reply)
       IN  /\ conversations' = o.store
           /\ req' = [i \in 1..Len(req) |->
                        IF i # r THEN Observe(req[i], conversations, o.store)
                        ELSE IF o.threw THEN AfterThrow(rec)
                        ELSE Kept(rec) @@ [pc |-> "done",
                                           returned_session_id |-> o.value.session_id,
                                           answer |-> o.value.content[1].text[1],
                                           intact |-> TRUE]]
    /\ UNCHANGED <<appended, lastOp, extractVars>>

\* What the handler of request r hands to its caller when its provider
\* call settles with reply: the envelope it returns, or the Error it throws
\* and the error that took it into its catch block (cause).
CompleteDelivery(r, reply) ==
    LET rec == req[r]
        o == ReceiveReply(rec.tool, conversations, rec.resolvedSessionId, rec.question, reply)
    IN  IF o.threw
        THEN [kind |-> "threw", r |-> r, tool |-> rec.tool,
              value |-> [message |-> o.value],
              cause |-> IF reply.ok THEN TypeError ELSE reply.error]
        ELSE [kind |-> "returned", r |-> r, tool |-> rec.tool,
              value |-> o.value, cause |-> JsUndefined]

Complete(r, reply) == CompleteStep(r, reply) /\ UNCHANGED delivered

\* What handleClearConversation returns.
ClearConfirmation(session_id) ==
    [content |-> <<[type |-> "text",
                    text |-> <<"Conversation history cleared for session: ", session_id,
                               "\n\nIf you want to start a new conversation, specify session_id=\"",
                               session_id, "\".">>]>>,
     session_id |-> session_id]

ClearStep_resolves(session_id_arg) ==
    LET session_id == IF session_id_arg = UNDEFINED THEN "default" ELSE session_id_arg
        store == clearConversation(conversations,
                                   resolveSessionId(session_id, TRUE, "a3f9c1").id)
    IN  /\ conversations' = store
        /\ req' = [i \in 1..Len(req) |->
                     IF req[i].pc = "done" /\ req[i].returned_session_id = session_id
                     THEN [req[i] EXCEPT !.intact = FALSE]
                     ELSE Observe(req[i], conversations, store)]
        /\ UNCHANGED <<appended, lastOp, extractVars>>

\* handleClearConversation(args): ClearConversationSchema.parse, then
\* clearConversation(validated.session_id), with no resolveSessionId.
ClearStep(session_id_arg) ==
    LET session_id == IF session_id_arg = UNDEFINED THEN "default" ELSE session_id_arg
        store == clearConversation(conversations, session_id)
    IN  /\ conversations' = store
        /\ req' = [i \in 1..Len(req) |->
                     IF req[i].pc = "done" /\ req[i].returned_session_id = session_id
                     THEN [req[i] EXCEPT !.intact = FALSE]
                     ELSE Observe(req[i], conversations, store)]
        /\ UNCHANGED <<appended, lastOp, extractVars>>

ClearDelivery(session_id_arg) ==
    [kind |-> "returned", r |-> 0, tool |-> "clear_conversation",
     value |-> ClearConfirmation(IF session_id_arg = UNDEFINED THEN "default"
                                 ELSE session_id_arg),
     cause |-> JsUndefined]

ClearTool(session_id_arg) == ClearStep(session_id_arg) /\ UNCHANGED delivered

\* The requests suspended at their provider call.
Awaiting == {r \in 1..Len(req) : req[r].pc = "awaiting"}

\* The tokens Math.random can yield where arguments args make
\* resolveSessionId call generateSessionId; where it is not called the
\* draw does not matter.
TokensFor(args) ==
    IF Falsy(args.session_id) \/ args.session_id = "default"
    THEN GeneratedTokens ELSE {""}

Next ==
    \/ \E tool \in AskTools, args \in AskArgs(Len(req) + 1) : Reject(tool, args)
    \/ \E tool \in AskTools, args \in AskArgs(Len(req) + 1) :
         \E token \in TokensFor(args) : Ask(tool, args, token)
    \/ \E r \in Awaiting : \E reply \in Replies(req[r].tool, r) : Complete(r, reply)
    \/ \E sid \in SessionArgs : ClearTool(sid)

Spec == Init /\ [][Next]_vars

(***************************************************************************)
(* SpecDeliver: the same handlers, with what each hands to its caller      *)
(* recorded in delivered.  Requests are served one at a time here: the     *)
(* next tool call arrives when the previous handler is over.               *)
(***************************************************************************)
InitDeliver ==
    /\ conversations = EmptyMap
    /\ appended = EmptyMap
    /\ lastOp = NoOp
    /\ req = <<>>
    /\ delivered = [kind |-> "none"]
    /\ response = JsUndefined
    /\ extracted = [state |-> "idle", value |-> JsUndefined]

RejectAndDeliver(tool, args) ==
    /\ Awaiting = {}
    /\ RejectStep(tool, args)
    /\ delivered' = RejectDelivery(tool)

AskAndSuspend(tool, args, token) ==
    /\ Awaiting = {}
    /\ AskStep(tool, args, token)
    /\ delivered' = [kind |-> "none"]

CompleteAndDeliver(r, reply) ==
    /\ CompleteStep(r, reply)
    /\ delivered' = CompleteDelivery(r, reply)

ClearAndDeliver(session_id_arg) ==
    /\ Awaiting = {}
    /\ ClearStep(session_id_arg)
    /\ delivered' = ClearDelivery(session_id_arg)

NextDeliver ==
    \/ \E tool \in AskTools, args \in AskArgs(Len(req) + 1) : RejectAndDeliver(tool, args)
    \/ \E tool \in AskTools, args \in AskArgs(Len(req) + 1) :
         \E token \in TokensFor(args) : AskAndSuspend(tool, args, token)
    \/ \E r \in Awaiting : \E reply \in Replies(req[r].tool, r) : CompleteAndDeliver(r, reply)
    \/ \E sid \in SessionArgs : ClearAndDeliver(sid)

SpecDeliver == InitDeliver /\ [][NextDeliver]_vars

(***************************************************************************)
(* SpecLong: the ask handlers on one session for as long as it takes to    *)
(* reach the cap of 20 Turns.  Requests arrive, are suspended and resume   *)
(* as in Spec, with up to MaxRequests of them in flight at once; req holds *)
(* the requests in flight only, a handler that has returned or thrown is   *)
(* gone.  Every request passes the same session id and question and every  *)
(* answer is the same text, so that the stored sequence is known by its    *)
(* length; appended logs the Turns pushed since the session was last       *)
(* cleared, and arrivals stop when it would exceed MaxLongTurns.           *)
(***************************************************************************)
MaxLongTurns == 24

LongTools == AskTools

LongSession == "a3f9c1"

LongArgs ==
    [question |-> JsString(Questions[1]), model |-> UNDEFINED, tools |-> JsUndefined,
     session_id |-> LongSession]

\* The provider's replies: a response with the answer text, a response
\* without the field the handler indexes, or an error.
LongReplies(tool) ==
    {reply \in Replies(tool, 1) :
        \/ ~reply.ok
        \/ reply.value = EmptyObject
        \/ TextField(tool, reply.value) = JsString(Answers[1])}

InitLong ==
    /\ conversations = EmptyMap
    /\ appended = EmptyMap
    /\ lastOp = NoOp
    /\ req = <<>>
    /\ delivered = [kind |-> "none"]
    /\ response = JsUndefined
    /\ extracted = [state |-> "idle", value |-> JsUndefined]

LongAsk(tool) ==
    /\ Len(LogOf(LongSession)) + 2 * Len(req) + 2 <= MaxLongTurns
    /\ AskStep(tool, LongArgs, "")
    /\ UNCHANGED delivered

\* The provider call of the r-th request in flight settles: the handler
\* runs to its end and is gone.
LongComplete(r, reply) ==
    /\ r \in 1..Len(req)
    /\ LET rec == req[r]
           o == ReceiveReply(rec.tool, conversations, rec.resolvedSessionId, rec.question, reply)
       IN  /\ conversations' = o.store
           /\ req' = [i \in 1..(Len(req) - 1) |->
                        Observe(IF i < r THEN req[i] ELSE req[i + 1], conversations, o.store)]
           /\ appended' = IF o.threw THEN appended
                          ELSE MapSet(appended, rec.resolvedSessionId,
                                      LogOf(rec.resolvedSessionId) \o
                                          <<[role |-> "user", content |-> rec.question],
                                            [role |-> "assistant",
                                             content |-> o.value.content[1].text[1]]>>)
    /\ UNCHANGED <<lastOp, delivered, extractVars>>

LongClear ==
    /\ conversations' = clearConversation(conversations, LongSession)
    /\ req' = [i \in 1..Len(req) |-> Observe(req[i], conversations, conversations')]
    /\ appended' = MapDelete(appended, LongSession)
    /\ UNCHANGED <<lastOp, delivered, extractVars>>

NextLong ==
    \/ \E tool \in LongTools : LongAsk(tool)
    \/ \E r \in 1..Len(req) : \E reply \in LongReplies(req[r].tool) : LongComplete(r, reply)
    \/ LongClear

SpecLong == InitLong /\ [][NextLong]_vars

(***************************************************************************)
(* Properties of the tool handlers, checked under Spec                     *)
(***************************************************************************)
\* The requests that passed validation: resolveSessionId was applied to
\* their session_id.
Resolved == {r \in 1..Len(req) : req[r].pc # "rejected"}

\* What getConversationHistory would return for id: its stored sequence,
\* empty where the id has no entry.
StoredHistory(conv, id) == IF id \in DOMAIN conv THEN conv[id] ELSE <<>>

\* The step in which the handler of request r throws.
Fails(r) == req[r].pc = "awaiting" /\ req'[r].pc = "failed"

\* No stored Turn carries the question of a request that has not obtained
\* a successful response.
OnlyAnsweredStored ==
    \A r \in 1..Len(req) :
        req[r].pc \in {"awaiting", "failed"} =>
            \A id \in DOMAIN conversations :
                \A i \in 1..Len(conversations[id]) :
                    conversations[id][i].content # req[r].question

\* C3 as stated: when the provider call of a request fails, the stored
\* history of the request's session is, after the failure, the same as it
\* was when the request read it.  Stated for the runs in which every
\* request passed a concrete session id, so that no generated id is involved.
C3_SameAsWhenRead ==
    [][\A r \in 1..Len(req) :
          (Fails(r) /\ \A k \in Resolved : ~req[k].drew) =>
              StoredHistory(conversations', req[r].resolvedSessionId) = req[r].history]_vars

\* C3 amended: a failing request appends no Turn.  Its failing step leaves
\* the whole store as it was just before the failure, the stored history of
\* its session equals what the request read unless another request or a
\* clear changed that session while it was suspended, and no Turn of an
\* unanswered request is ever stored.
C3_FailureCommitsNothing ==
    [][/\ OnlyAnsweredStored'
       /\ \A r \in 1..Len(req) :
             Fails(r) =>
                /\ conversations' = conversations
                /\ req[r].undisturbed =>
                      StoredHistory(conversations', req[r].resolvedSessionId) = req[r].history]_vars

\* A request has failed on a session that holds the Turns of another request.
C3_Witness ==
    \E r \in 1..Len(req) :
        /\ req[r].pc = "failed"
        /\ Len(StoredHistory(conversations, req[r].resolvedSessionId)) >= 2

\* C4 as stated: resolveSessionId returns every client-supplied id other
\* than "default", the empty string included, unchanged and generates no id.
C4_NonSentinelUnchanged ==
    \A r \in Resolved :
        req[r].session_id # "default" =>
            req[r].resolvedSessionId = req[r].session_id /\ ~req[r].drew

\* C4 amended: resolveSessionId returns every client-supplied id that is
\* neither "default" nor the empty string unchanged and generates no id; for
\* the empty string, as for an absent id, it generates one.
C4_NonEmptyNonSentinelUnchanged ==
    \A r \in Resolved :
        /\ req[r].session_id \notin {"default", ""} =>
              req[r].resolvedSessionId = req[r].session_id /\ ~req[r].drew
        /\ req[r].session_id = "" => req[r].drew

\* A request passed a concrete id and was resolved to it.
C4_Witness ==
    \E r \in Resolved :
        /\ req[r].session_id = "a3f9c1"
        /\ req[r].resolvedSessionId = "a3f9c1"
        /\ ~req[r].drew

\* C5: two requests whose session id is absent or "default" are resolved
\* to two different generated ids.
C5_GeneratedIdsDiffer ==
    \A r1, r2 \in Resolved :
        (r1 # r2 /\ req[r1].session_id = "default" /\ req[r2].session_id = "default") =>
            req[r1].resolvedSessionId # req[r2].resolvedSessionId

\* C6: the id generated for a request whose session id is absent or
\* "default" is not the key of a session already in the store, and the
\* history threaded into its provider request is empty.
C6_FreshSession ==
    [][(Len(req') = Len(req) + 1 /\ req'[Len(req')].pc = "awaiting"
            /\ req'[Len(req')].session_id = "default") =>
          /\ req'[Len(req')].resolvedSessionId \notin DOMAIN conversations
          /\ req'[Len(req')].history = <<>>]_vars

\* The message sequence a request sends to its provider, as role and text.
SentMessages(rec) ==
    IF rec.tool = "ask_gemini"
    THEN [i \in 1..Len(rec.params.contents) |->
            [role |-> IF rec.params.contents[i].role = "model" THEN "assistant"
                      ELSE rec.params.contents[i].role,
             content |-> rec.params.contents[i].parts[1].text]]
    ELSE rec.params.messages

\* The sequence holds question and answer as a user Turn followed by an
\* assistant Turn, before its last message.
ContainsExchange(messages, question, answer) ==
    \E i \in 1..Len(messages) :
        /\ i + 1 < Len(messages)
        /\ messages[i] = [role |-> "user", content |-> question]
        /\ messages[i + 1] = [role |-> "assistant", content |-> answer]

\* C7: a request that passes the session_id an earlier request returned,
\* with no clear of it in between, sends its provider the earlier request's
\* question and answer before the new question.
C7_Continuity ==
    \A r \in Awaiting :
        \A e \in req[r].continues :
            ContainsExchange(SentMessages(req[r]), req[e].question, req[e].answer)

(***************************************************************************)
(* Context assembly, checked under Spec on the requests suspended at their *)
(* provider call                                                           *)
(***************************************************************************)
\* The new question as the entry the flat and the side-channel shapes end with.
UserEntry(question) == [role |-> "user", content |-> question]

\* C14: the message sequence sent to Claude is the stored history in its
\* order followed by the new question as a user entry; the preamble is no
\* entry of it and is passed in the system parameter.
C14_ClaudeSideChannel ==
    \A r \in Awaiting :
        req[r].tool = "ask_claude" =>
            LET m == req[r].params.messages
            IN  /\ m = req[r].history \o <<UserEntry(req[r].question)>>
                /\ \A i \in 1..Len(m) : m[i].role # "system" /\ m[i].content # SYSTEM_PROMPT
                /\ req[r].params.system = SYSTEM_PROMPT
                /\ req[r].undisturbed =>
                      req[r].history = StoredHistory(conversations, req[r].resolvedSessionId)

\* A Claude request is suspended with the Turns of an earlier exchange in
\* the sequence it sent.
C14_Witness ==
    \E r \in Awaiting :
        /\ req[r].tool = "ask_claude"
        /\ Len(req[r].history) >= 2
        /\ Len(req[r].params.messages) = Len(req[r].history) + 1

\* C15: the message sequence sent to OpenAI and OpenRouter is one system
\* entry holding the preamble, the stored Turns in stored order, and the new
\* question as the last, user entry: history length + 2 entries.
C15_FlatSequence ==
    \A r \in Awaiting :
        req[r].tool \in {"ask_gpt", "ask_openrouter"} =>
            LET m == req[r].params.messages
                h == req[r].history
            IN  /\ Len(m) = Len(h) + 2
                /\ m[1] = [role |-> "system", content |-> SYSTEM_PROMPT]
                /\ \A i \in 1..Len(h) : m[i + 1] = h[i]
                /\ m[Len(m)] = UserEntry(req[r].question)
                /\ req[r].undisturbed =>
                      h = StoredHistory(conversations, req[r].resolvedSessionId)

\* An OpenAI or OpenRouter request is suspended with the Turns of an
\* earlier exchange between the preamble and its question.
C15_Witness ==
    \E r \in Awaiting :
        /\ req[r].tool \in {"ask_gpt", "ask_openrouter"}
        /\ Len(req[r].history) >= 2
        /\ req[r].params.messages[2] = req[r].history[1]
        /\ req[r].params.messages[2].role = "user"

\* The label a stored role is sent to Gemini under.
ProviderLabel(role) == IF role = "assistant" THEN "model" ELSE "user"

\* A stored Turn, or the question, as an entry of Gemini's contents.
GeminiEntry(role, text) == [role |-> role, parts |-> <<[text |-> text]>>]

\* C16 as stated: the sequence sent to Gemini is the role-annotated one
\* (the preamble as a system-role entry, the history, the question last as
\* user) with "assistant" sent as "model".
C16_GeminiInlinePreamble ==
    \A r \in Awaiting :
        req[r].tool = "ask_gemini" =>
            LET c == req[r].params.contents
                h == req[r].history
            IN  /\ Len(c) = Len(h) + 2
                /\ c[1] = GeminiEntry("system", SYSTEM_PROMPT)
                /\ \A i \in 1..Len(h) :
                      c[i + 1] = GeminiEntry(ProviderLabel(h[i].role), h[i].content)
                /\ c[Len(c)] = GeminiEntry("user", req[r].question)

\* C16 amended: the sequence sent to Gemini is the history in its order,
\* "assistant" sent as "model" and "user" as "user", then the question last
\* as user; the preamble is no entry of it and is passed as the separate
\* systemInstruction.
C16_GeminiRelabeled ==
    \A r \in Awaiting :
        req[r].tool = "ask_gemini" =>
            LET c == req[r].params.contents
                h == req[r].history
            IN  /\ Len(c) = Len(h) + 1
                /\ \A i \in 1..Len(h) :
                      c[i] = GeminiEntry(ProviderLabel(h[i].role), h[i].content)
                /\ c[Len(c)] = GeminiEntry("user", req[r].question)
                /\ \A i \in 1..Len(c) : c[i].role \in {"user", "model"}
                /\ req[r].params.systemInstruction = GeminiEntry("system", SYSTEM_PROMPT)

\* A Gemini request is suspended having sent a stored assistant Turn as "model".
C16_Witness ==
    \E r \in Awaiting :
        /\ req[r].tool = "ask_gemini"
        /\ Len(req[r].history) >= 2
        /\ req[r].history[2].role = "assistant"
        /\ req[r].params.contents[2].role = "model"

\* The step in which a request passes validation and reaches its provider call.
Issues == Len(req') = Len(req) + 1 /\ req'[Len(req')].pc = "awaiting"

\* C17: building the provider message sequence changes no stored Turn: when
\* the provider call is issued every session holds what it held when the
\* request arrived, and the request's session holds the history it read.
C17_AssemblyKeepsStore ==
    [][Issues =>
          LET rec == req'[Len(req')]
          IN  /\ \A id \in DOMAIN conversations :
                    id \in DOMAIN conversations' /\ conversations'[id] = conversations[id]
              /\ DOMAIN conversations' = DOMAIN conversations \cup {rec.resolvedSessionId}
              /\ conversations'[rec.resolvedSessionId] = rec.history]_vars

\* A request is suspended at its provider call having sent two stored
\* Turns, and the store holds them as before.
C17_Witness ==
    \E r \in Awaiting :
        /\ Len(req[r].history) >= 2
        /\ req[r].undisturbed
        /\ conversations[req[r].resolvedSessionId] = req[r].history

\* C19: every ask request issues at most one provider call over its
\* lifetime: none when it is rejected, one otherwise, whether the call
\* succeeds or fails.
C19_AtMostOneCall ==
    \A r \in 1..Len(req) :
        /\ req[r].calls <= 1
        /\ req[r].pc \in {"awaiting", "done", "failed"} => req[r].calls = 1
        /\ req[r].pc = "rejected" => req[r].calls = 0

\* A request whose provider call failed is over, with that one call.
C19_Witness ==
    \E r \in 1..Len(req) : req[r].pc = "failed" /\ req[r].calls = 1

(***************************************************************************)
(* What the handlers hand to their caller, checked under SpecDeliver       *)
(***************************************************************************)
\* The provider name and the credential variable in each handler's catch block.
ProviderName(tool) ==
    CASE tool = "ask_gpt" -> "OpenAI"
      [] tool = "ask_claude" -> "Anthropic"
      [] tool = "ask_gemini" -> "Google"
      [] tool = "ask_openrouter" -> "OpenRouter"

CredentialVariable(tool) ==
    CASE tool = "ask_gpt" -> "OPENAI_API_KEY"
      [] tool = "ask_claude" -> "ANTHROPIC_API_KEY"
      [] tool = "ask_gemini" -> "GOOGLE_API_KEY"
      [] tool = "ask_openrouter" -> "OPENROUTER_API_KEY"

AuthenticationError(tool) ==
    <<ProviderName(tool), " API key is invalid or missing. Please set ",
      CredentialVariable(tool), " environment variable.">>

RateLimitError(tool) ==
    <<ProviderName(tool), " API rate limit exceeded. Please try again later.">>

GenericError(tool, cause) == <<ProviderName(tool), " API error: ", Prop(cause, "message")>>

\* The last step was an ask handler throwing out of its catch block.
ProviderFailureDelivered ==
    delivered.kind = "threw" /\ delivered.cause # ZodError

\* The error says the credential is missing or invalid: status 401, and for
\* Google also a message naming API_KEY.
CredentialRefused(tool, cause) ==
    \/ Prop(cause, "status") = JsNumber(401)
    \/ tool = "ask_gemini" /\ IncludesApiKey(Prop(cause, "message"))

\* C18: a failed provider call is re-signalled as exactly one of three
\* provider-qualified errors: the authentication error naming the
\* credential variable when the credential is refused, the rate-limit error
\* on status 429, otherwise '<Provider> API error: ' with the underlying
\* message; the request is over and has returned nothing.
C18_ErrorsClassified ==
    ProviderFailureDelivered =>
        LET tool == delivered.tool
            cause == delivered.cause
            message == delivered.value.message
        IN  /\ req[delivered.r].pc = "failed"
            /\ IF CredentialRefused(tool, cause) THEN message = AuthenticationError(tool)
               ELSE IF Prop(cause, "status") = JsNumber(429) THEN message = RateLimitError(tool)
               ELSE message = GenericError(tool, cause)

\* A rate-limited call was re-signalled as the provider's rate-limit error.
C18_Witness ==
    /\ ProviderFailureDelivered
    /\ Prop(delivered.cause, "status") = JsNumber(429)
    /\ delivered.value.message = RateLimitError(delivered.tool)
    /\ req[delivered.r].pc = "failed"

\* The step in which a tool call is refused by its schema.
Refuses == Len(req') = Len(req) + 1 /\ req'[Len(req')].pc = "rejected"

\* C20: a request with a missing or wrongly typed question never gets past
\* validation; it is rejected with the validation error, with no provider
\* call, no session id resolved or generated, and the store unchanged.
C20_RejectedBeforeAnything ==
    [][/\ \A r \in 1..Len(req') :
             req'[r].pc # "rejected" => req'[r].question.t = "string"
       /\ Refuses =>
             /\ conversations' = conversations
             /\ req'[Len(req')].calls = 0
             /\ "resolvedSessionId" \notin DOMAIN req'[Len(req')]
             /\ delivered'.kind = "threw"
             /\ delivered'.cause = ZodError
             /\ delivered'.value.message = InvalidArguments]_vars

\* A malformed request was rejected while the store held a conversation.
C20_Witness ==
    /\ delivered.kind = "threw"
    /\ delivered.cause = ZodError
    /\ req[delivered.r].pc = "rejected"
    /\ \E id \in DOMAIN conversations : Len(conversations[id]) >= 2

(***************************************************************************)
(* The envelope of a successful request, checked under SpecDeliver on the  *)
(* step in which a provider call settles                                   *)
(***************************************************************************)
\* The raw response holds a shape extractToolCall recognizes.
Recognized(raw) == ~extractToolCall(raw).threw /\ extractToolCall(raw).value # JsNull

\* The last two Turns stored under id.
LastExchange(conv, id) ==
    IF id \in DOMAIN conv /\ Len(conv[id]) >= 2
    THEN SubSeq(conv[id], Len(conv[id]) - 1, Len(conv[id]))
    ELSE <<>>

\* C21: for every ask tool, the envelope of a successful request has as its
\* first content entry the answer followed by the continuation hint naming
\* the session id, as session_id the resolved id under which the request's
\* Turns were stored, and the tool_call field and the second content entry
\* 'tool_call: ...' exactly when the raw response holds a recognized
\* tool-invocation shape.
C21_EnvelopeShape ==
    [][\A r \in Awaiting : \A reply \in Replies(req[r].tool, r) :
          (CompleteAndDeliver(r, reply) /\ delivered'.kind = "returned") =>
              LET env == delivered'.value
                  sid == req[r].resolvedSessionId
                  stored == LastExchange(conversations', env.session_id)
              IN  /\ env.content[1].type = "text"
                  /\ SubSeq(env.content[1].text, 2, Len(env.content[1].text))
                        = ContinuationHint(sid)
                  /\ env.session_id = sid
                  /\ stored = <<[role |-> "user", content |-> req[r].question],
                                [role |-> "assistant", content |-> env.content[1].text[1]]>>
                  /\ ("tool_call" \in DOMAIN env) = Recognized(reply.value)
                  /\ (Len(env.content) = 2) = Recognized(reply.value)
                  /\ Len(env.content) = 2 =>
                        env.content[2] = [type |-> "text",
                                          text |-> <<"tool_call: ",
                                                     JSON_stringify(extractToolCall(reply.value).value)>>]]_vars

\* The answer an envelope carries: its first content entry without the hint.
AnswerOf(env) == env.content[1].text[1]

\* C22: when a provider call resolves with a response whose text field is
\* missing, null or empty, the caller is returned an envelope whose answer
\* is 'No response generated'; no returned envelope carries an empty answer.
C22_FallbackAnswer ==
    [][\A r \in Awaiting : \A reply \in Replies(req[r].tool, r) :
          CompleteAndDeliver(r, reply) =>
              /\ (reply.ok /\ ~Truthy(TextField(req[r].tool, reply.value))) =>
                    /\ delivered'.kind = "returned"
                    /\ AnswerOf(delivered'.value) = NoResponse
              /\ delivered'.kind = "returned" => Truthy(AnswerOf(delivered'.value))]_vars

(***************************************************************************)
(* clear_conversation and the lifetime of a session                        *)
(***************************************************************************)
\* The key clear_conversation is asked to clear: session_id, "default"
\* when it is omitted.
ClearedKey(session_id_arg) == IF session_id_arg = UNDEFINED THEN "default" ELSE session_id_arg

\* C23: the clear tool called with session_id s (or none, which stands for
\* "default") removes the store entry keyed by exactly s and no other,
\* resolves or generates no id, calls no provider, and returns a
\* confirmation text together with session_id = s.
C23_ClearExactKey ==
    [][\A sid \in SessionArgs :
          ClearAndDeliver(sid) =>
              LET s == ClearedKey(sid)
              IN  /\ DOMAIN conversations' = DOMAIN conversations \ {s}
                  /\ \A id \in DOMAIN conversations' : conversations'[id] = conversations[id]
                  /\ Len(req') = Len(req)
                  /\ \A i \in 1..Len(req) :
                        req'[i].pc = req[i].pc /\ req'[i].calls = req[i].calls
                  /\ delivered'.kind = "returned"
                  /\ delivered'.value.session_id = s
                  /\ Len(delivered'.value.content) = 1
                  /\ delivered'.value.content[1].type = "text"
                  /\ delivered'.value.content[1].text[1]
                        = "Conversation history cleared for session: "
                  /\ delivered'.value.content[1].text[2] = s]_vars

\* The session a request stored its Turns under has been cleared by its id
\* and is gone, and the tool returned that id.
C23_Witness ==
    /\ delivered.kind = "returned"
    /\ delivered.tool = "clear_conversation"
    /\ delivered.value.session_id = "a3f9c1"
    /\ "a3f9c1" \notin DOMAIN conversations
    /\ \E r \in 1..Len(req) :
          req[r].pc = "done" /\ req[r].resolvedSessionId = "a3f9c1" /\ ~req[r].intact

\* C24: a session present in the store is removed only by an explicit clear
\* of its id: every step that takes a key out of the store is a clear
\* called with that key; no get, append, resolve, successful or failed
\* request removes an entry.
C24_RemovedOnlyByClear ==
    [][\A id \in DOMAIN conversations :
          id \notin DOMAIN conversations' =>
              \/ \E sid \in SessionArgs : ClearTool(sid) /\ ClearedKey(sid) = id
              \/ \E arg \in StoreArgs : StoreClear(arg) /\ KeyOf(arg) = id]_vars

\* A session is in the store with its Turns after a request on it succeeded
\* and another request on it failed.
C24_Witness ==
    \E r1, r2 \in 1..Len(req) :
        /\ req[r1].pc = "done" /\ req[r1].intact
        /\ req[r2].pc = "failed"
        /\ req[r1].resolvedSessionId = req[r2].resolvedSessionId
        /\ req[r1].resolvedSessionId \in DOMAIN conversations
        /\ Len(conversations[req[r1].resolvedSessionId]) = 2

(***************************************************************************)
(* Requests in flight at once on one session id, checked under Spec        *)
(***************************************************************************)
\* The history holds question and answer as a user Turn followed at once
\* by an assistant Turn.
HoldsExchange(history, question, answer) ==
    \E i \in 1..Len(history) :
        /\ i < Len(history)
        /\ history[i] = [role |-> "user", content |-> question]
        /\ history[i + 1] = [role |-> "assistant", content |-> answer]

\* C25: no lost updates.  Whatever the order in which requests on one
\* session id are suspended and resumed, every request that succeeded has
\* its user Turn and its assistant Turn in the stored history of its
\* session, as long as the session has not been cleared since.
C25_NoLostUpdates ==
    \A r \in 1..Len(req) :
        (req[r].pc = "done" /\ req[r].intact) =>
            HoldsExchange(StoredHistory(conversations, req[r].resolvedSessionId),
                          req[r].question, req[r].answer)

\* Two requests on one session id were in flight at once and both
\* succeeded, the later one first: the session holds the Turns of both.
C25_Witness ==
    /\ Len(req) = 2
    /\ req[1].pc = "done" /\ req[2].pc = "done"
    /\ req[1].intact /\ req[2].intact
    /\ req[1].resolvedSessionId = req[2].resolvedSessionId
    /\ Len(StoredHistory(conversations, req[1].resolvedSessionId)) = 4
    /\ conversations[req[1].resolvedSessionId][1].content = req[2].question

\* The step in which the handler of request r stores its two Turns and returns.
Succeeds(r) == req[r].pc = "awaiting" /\ req'[r].pc = "done"

\* The Turns stored under id before its last two.
BeforeLastExchange(conv, id) ==
    IF id \in DOMAIN conv /\ Len(conv[id]) >= 2
    THEN SubSeq(conv[id], 1, Len(conv[id]) - 2)
    ELSE <<>>

\* C26: insertion order is conversational order under interleaving.  When a
\* request stores its assistant Turn, the stored Turns that precede its own
\* user Turn are the history that was sent to the provider to produce the
\* answer (its oldest Turns dropped where the cap of 20 is reached).  Stated
\* for the runs in which every request passed a concrete session id.
C26_StoredAfterWhatWasSent ==
    [][\A r \in 1..Len(req) :
          (Succeeds(r) /\ \A k \in Resolved : ~req[k].drew) =>
              BeforeLastExchange(conversations', req[r].resolvedSessionId)
                  = LastN(req[r].history, MAX_HISTORY - 2)]_vars

\* C27: a clear is not undone by an older request.  getConversationHistory
\* gave the session of request r an entry when r arrived, and only a clear
\* of that id removes it; so when the provider call of r resolves and the
\* id has no entry, a clear of it has run while r was in flight and no
\* later request has referred to the id since.  The history of the id is
\* then still empty after r has returned.  Stated for the runs in which
\* every request passed a concrete session id.
C27_ClearNotUndone ==
    [][\A r \in 1..Len(req) :
          (/\ Succeeds(r)
           /\ req[r].resolvedSessionId \notin DOMAIN conversations
           /\ \A k \in Resolved : ~req[k].drew) =>
              StoredHistory(conversations', req[r].resolvedSessionId) = <<>>]_vars

(***************************************************************************)
(* What a failed request leaves in the store, checked under SpecDeliver,   *)
(* where a request arrives, is suspended and fails with no other step in   *)
(* between                                                                 *)
(***************************************************************************)
\* The step in which an ask request passes validation and is suspended at
\* its provider call.
Arrives == Len(req') = Len(req) + 1 /\ req'[Len(req')].pc = "awaiting"

\* C28 as stated: a failed request leaves the store as if it had never been
\* made.  No request creates an entry but for its own resolved id, so when
\* a request has failed and no other request was resolved to its id, the id
\* has no entry in the store.
C28_FailureLeavesNoEntry ==
    \A r \in 1..Len(req) :
        (/\ req[r].pc = "failed"
         /\ \A k \in Resolved \ {r} : req[k].resolvedSessionId # req[r].resolvedSessionId) =>
            req[r].resolvedSessionId \notin DOMAIN conversations

\* C28 amended: a failed request leaves every session's history as it was
\* before the request arrived and removes no session; the one trace it
\* leaves is an entry with an empty history for its resolved id where the
\* store had none.  Its arrival changes the store by that entry at most,
\* and its failure changes nothing.
C28_FailureLeavesNoTurn ==
    [][/\ Arrives =>
             /\ \A id \in DOMAIN conversations :
                   id \in DOMAIN conversations' /\ conversations'[id] = conversations[id]
             /\ \A id \in DOMAIN conversations' \ DOMAIN conversations :
                   /\ id = req'[Len(req')].resolvedSessionId
                   /\ conversations'[id] = <<>>
       /\ \A r \in 1..Len(req) : Fails(r) => conversations' = conversations]_vars

\* A request on an id of its own has failed: the id has an entry with an
\* empty history, next to the session another request stored its Turns in.
C28_Witness ==
    \E r \in 1..Len(req) :
        /\ req[r].pc = "failed"
        /\ \A k \in Resolved \ {r} : req[k].resolvedSessionId # req[r].resolvedSessionId
        /\ req[r].resolvedSessionId \in DOMAIN conversations
        /\ conversations[req[r].resolvedSessionId] = <<>>
        /\ \E id \in DOMAIN conversations : Len(conversations[id]) = 2

(***************************************************************************)
(* The stored sequence up to and across the cap, checked under SpecLong    *)
(***************************************************************************)
\* The history starts with a user Turn, alternates, and ends with an
\* assistant Turn.
Alternates(history) ==
    /\ Len(history) % 2 = 0
    /\ \A i \in 1..Len(history) :
          history[i].role = IF i % 2 = 1 THEN "user" ELSE "assistant"

\* C29: whenever a request may read a history or another request may run,
\* every stored history has even length and alternates user, assistant,
\* ... starting with a user Turn, across the truncation at 20 Turns and
\* whatever the interleaving of the requests.
C29_Alternates ==
    \A id \in DOMAIN conversations : Alternates(conversations[id])

\* More than 20 Turns have been pushed on the session, by requests that
\* were in flight at once, and another request is suspended.
C29_Witness ==
    /\ Len(LogOf(LongSession)) > MAX_HISTORY
    /\ Len(StoredHistory(conversations, LongSession)) = MAX_HISTORY
    /\ \E r \in 1..Len(req) : Len(req[r].history) < MAX_HISTORY - 2

(***************************************************************************)
(* What a successful request stores, checked under SpecDeliver             *)
(***************************************************************************)
\* C30: a successful ask request appends exactly two Turns to the history
\* of its session, adjacent and in this order: a user Turn holding the
\* request's question and an assistant Turn holding exactly the answer of
\* the envelope it returns, the placeholder included, without the
\* continuation hint and without the tool call; no other session changes.
C30_TwoTurnsStored ==
    [][\A r \in 1..Len(req) :
          (Succeeds(r) /\ delivered'.kind = "returned") =>
              LET sid == req[r].resolvedSessionId
                  before == StoredHistory(conversations, sid)
                  after == StoredHistory(conversations', sid)
              IN  /\ after = LastN(before \o
                                    <<[role |-> "user", content |-> req[r].question],
                                      [role |-> "assistant",
                                       content |-> AnswerOf(delivered'.value)]>>,
                                   MAX_HISTORY)
                  /\ DOMAIN conversations' = DOMAIN conversations \cup {sid}
                  /\ \A id \in DOMAIN conversations \ {sid} :
                        conversations'[id] = conversations[id]]_vars

\* A request on a session that held two Turns got a tool call and no text:
\* the envelope carries the placeholder and the tool call, and the session
\* ends with the question and the placeholder.
C30_Witness ==
    /\ delivered.kind = "returned"
    /\ delivered.tool = "ask_openrouter"
    /\ "tool_call" \in DOMAIN delivered.value
    /\ AnswerOf(delivered.value) = NoResponse
    /\ Len(StoredHistory(conversations, delivered.value.session_id)) = 4
    /\ LastExchange(conversations, delivered.value.session_id)
          = <<[role |-> "user", content |-> req[delivered.r].question],
              [role |-> "assistant", content |-> NoResponse]>>

(***************************************************************************)
(* The sentinel id, checked under SpecDeliver                              *)
(***************************************************************************)
\* C31: through the tool handlers the sentinel is never a live session.  No
\* step of an ask or clear tool leaves a store entry keyed "default", no
\* request that returned an envelope returned session_id "default", and a
\* clear called without session_id leaves the store as it was.
C31_SentinelNeverLive ==
    [][/\ "default" \notin DOMAIN conversations'
       /\ \A r \in 1..Len(req') :
             req'[r].pc = "done" => req'[r].returned_session_id # "default"
       /\ delivered'.kind = "returned" => delivered'.value.session_id # "default"
                                            \/ delivered'.tool = "clear_conversation"
       /\ ClearStep(UNDEFINED) => conversations' = conversations]_vars

\* A request that passed no concrete id has its Turns stored, and a clear
\* without session_id has just returned: the Turns are still there.
C31_Witness ==
    /\ delivered.kind = "returned"
    /\ delivered.tool = "clear_conversation"
    /\ delivered.value.session_id = "default"
    /\ \E r \in 1..Len(req) :
          /\ req[r].pc = "done"
          /\ req[r].session_id = "default"
          /\ HoldsExchange(StoredHistory(conversations, req[r].resolvedSessionId),
                           req[r].question, req[r].answer)

(***************************************************************************)
(* Session isolation, checked under SpecStore for the store operations;    *)
(* the same formula covers the handlers' steps under Spec                  *)
(***************************************************************************)
\* Every session id other than id holds the same in both stores.
OthersSame(before, after, id) ==
    \A other \in (DOMAIN before \cup DOMAIN after) \ {id} : SameAt(before, after, other)

\* C32: get, append and clear on session id A, and every step of a request
\* served under id A, leave the history of every other session id as it
\* was; get on an absent id adds an empty entry for that id and nothing
\* else, and get on a present id changes nothing.
C32_SessionIsolation ==
    [][/\ \A arg \in StoreArgs :
             /\ (StoreGet(arg) \/ StoreAppend(arg) \/ StoreClear(arg)) =>
                   OthersSame(conversations, conversations', KeyOf(arg))
             /\ StoreGet(arg) =>
                   /\ KeyOf(arg) \in DOMAIN conversations => conversations' = conversations
                   /\ KeyOf(arg) \notin DOMAIN conversations =>
                         /\ DOMAIN conversations' = DOMAIN conversations \cup {KeyOf(arg)}
                         /\ conversations'[KeyOf(arg)] = <<>>
       /\ Arrives =>
             OthersSame(conversations, conversations', req'[Len(req')].resolvedSessionId)
       /\ \A r \in 1..Len(req) :
             (Succeeds(r) \/ Fails(r)) =>
                 OthersSame(conversations, conversations', req[r].resolvedSessionId)
       /\ \A sid \in SessionArgs :
             ClearStep(sid) => OthersSame(conversations, conversations', ClearedKey(sid))]_vars

\* One session has just been cleared while another one, which was pushed
\* beyond the cap, holds its 20 Turns.
C32_Witness ==
    /\ lastOp.op = "clear"
    /\ KeyOf(lastOp.arg) = "s1"
    /\ "s1" \in DOMAIN lastOp.before
    /\ Len(lastOp.before["s1"]) > 0
    /\ "s1" \notin DOMAIN conversations
    /\ "default" \in DOMAIN conversations
    /\ Len(conversations["default"]) = MAX_HISTORY
    /\ Len(LogOf("default")) > MAX_HISTORY

(***************************************************************************)
(* An empty tool call against no tool call, checked under SpecExtract      *)
(***************************************************************************)
\* The value under the arguments fields shape i reads from its fragment,
\* before any fallback to the fragment as a whole.
ArgumentsField(i, frag) ==
    IF i \in {2, 3} THEN Coalesce(Prop(frag, "arguments"), Prop(frag, "args"))
    ELSE ShapeArguments(i, frag)

\* Shape i's fragment carries no name and no arguments.
NamesNothing(i, frag) ==
    /\ Nullish(ShapeName(i, frag))
    /\ Nullish(ArgumentsField(i, frag))

\* C33: when the shape extractToolCall matches is present with no name and
\* no arguments, it returns a non-null ToolCall with that shape's tag, name
\* null and args null; it returns null only when none of the six shapes is
\* present.
C33_EmptyIsNotAbsent ==
    extracted.state # "idle" =>
        /\ PresentShapes(response) # {} =>
              LET i == SetMin(PresentShapes(response))
              IN  NamesNothing(i, ShapeFragment(i, response)) =>
                      /\ extracted.state = "returned"
                      /\ extracted.value # JsNull
                      /\ Prop(extracted.value, "source") = JsString(ShapeTag[i])
                      /\ Prop(extracted.value, "name") = JsNull
                      /\ Prop(extracted.value, "args") = JsNull
        /\ extracted = [state |-> "returned", value |-> JsNull] =>
              PresentShapes(response) = {}

(***************************************************************************)
(* SpecLive: the handlers of Spec, where every provider call that was      *)
(* issued settles: the promise a handler awaits resolves or rejects, and   *)
(* the event loop then runs the rest of that handler                       *)
(***************************************************************************)
\* await openai.chat.completions.create(...) / anthropic.messages.create(...)
\* / model.generateContent(...) of request r settles.
Settles(r) ==
    /\ r \in Awaiting
    /\ \E reply \in Replies(req[r].tool, r) : Complete(r, reply)

SpecLive == Init /\ [][Next]_vars /\ \A r \in 1..MaxRequests : WF_vars(Settles(r))

\* Request r was accepted and its provider call has not settled.
InFlight(r) == r \in 1..Len(req) /\ req[r].pc = "awaiting"

\* The handler of request r is over: it returned its envelope ("done"), or
\* threw to the dispatcher ("failed", or "rejected" by its schema).
Completed(r) == r \in 1..Len(req) /\ req[r].pc \in {"done", "failed", "rejected"}

\* C34: if every issued provider call eventually resolves or fails, every
\* ask request eventually completes, and with exactly one outcome: its
\* provider is called once, the step that settles the call hands the caller
\* either a success envelope or an error and ends the request, and a
\* request that is over never is in flight or completes again.
C34_CompletesExactlyOnce ==
    /\ \A r \in 1..MaxRequests : InFlight(r) ~> Completed(r)
    /\ [][/\ Len(req') > Len(req) => req'[Len(req')].pc \in {"awaiting", "rejected"}
          /\ \A r \in 1..Len(req) :
                /\ Completed(r) => (Completed(r)' /\ req'[r].pc = req[r].pc)
                /\ InFlight(r) =>
                      /\ req'[r].calls = 1
                      /\ req'[r].pc \in {"awaiting", "done", "failed"}
                      /\ req'[r].pc # "awaiting" =>
                            \A reply \in Replies(req[r].tool, r) :
                                Complete(r, reply) =>
                                    LET out == CompleteDelivery(r, reply)
                                    IN  /\ out.kind \in {"returned", "threw"}
                                        /\ out.kind = "returned" <=> req'[r].pc = "done"
                                        /\ out.kind = "threw" <=> req'[r].pc = "failed"
                                        /\ out.kind = "returned" =>
                                              /\ {"content", "session_id"} \subseteq DOMAIN out.value
                                              /\ Len(out.value.content) >= 1
                                        /\ out.kind = "threw" => Len(out.value.message) > 0]_vars

\* Two requests were accepted; the first returned its envelope and the
\* second threw after its provider call failed.
C34_Witness ==
    /\ Len(req) = 2
    /\ req[1].pc = "done"
    /\ req[2].pc = "failed"
    /\ req[1].calls = 1
    /\ req[2].calls = 1

(***************************************************************************)
(* SpecPure: extractToolCall is called more than once on one response.     *)
(* extracted holds the outcome of the latest call and the number of calls  *)
(***************************************************************************)
MaxCalls == 2

InitPure ==
    /\ conversations = EmptyMap
    /\ appended = EmptyMap
    /\ lastOp = NoOp
    /\ req = <<>>
    /\ delivered = [kind |-> "none"]
    /\ response \in Completions
    /\ extracted = [state |-> "idle", value |-> JsUndefined, calls |-> 0]

\* extractToolCall(completion), once more on the same completion.  The
\* function reads completion through ?. and ?? and assigns to none of its
\* properties; it keeps nothing between calls.
ExtractCall ==
    /\ extracted.calls < MaxCalls
    /\ LET out == extractToolCall(response)
       IN  extracted' = [state |-> IF out.threw THEN "threw" ELSE "returned",
                         value |-> out.value,
                         calls |-> extracted.calls + 1]
    /\ UNCHANGED <<storeVars, handlerVars, response>>

NextPure == ExtractCall

SpecPure == InitPure /\ [][NextPure]_vars

\* The shapes whose tag a returned ToolCall carries.
TaggedShapes(toolCall) == {i \in 1..6 : Prop(toolCall, "source") = JsString(ShapeTag[i])}

====
